---- MODULE Spec2Model ----
(***************************************************************************)
(* Guided tour of the portfolio site: the tour orchestrator (state         *)
(* machine, cross-page persistence through localStorage, page              *)
(* initialisation policy) together with the sound manager it drives.       *)
(*                                                                         *)
(* The page is single threaded: every handler below runs to completion.    *)
(* The machine m is the record of everything a handler can read or write;  *)
(* a handler of the source is an operator from machines to machines, and   *)
(* an action of the specification applies one handler to the variables.    *)
(***************************************************************************)
EXTENDS Integers, Sequences, FiniteSets, TLC

VARIABLES
  pathname,        \* window.location.pathname, a sequence of tokens
  search,          \* window.location.search: the set of query parameter names
  localStorage,    \* the three persisted keys, NULL when absent
  env,             \* what the browser offers: storage, Web Audio, speech
  state,           \* TourState: currentStep, isActive, isTyping, hasCompleted
  tourSteps,       \* the script loaded for the current page
  reveals,         \* typeMessage promises that have not resolved yet:
                   \* cur, the one the last render started; old, how many
                   \* reveals a later render has superseded
  phase,           \* "loading" until initTour's settle callback has run
  startTimer,      \* the deferred startTour scheduled by initTour, or "none"
  navTo,           \* target of a navigation requested through location.href
  catGuide,        \* mascot collaborator: visible, animation
  tourSpotlight,   \* overlay collaborator: visible, welcomeMode, target
  speechBubble,    \* bubble collaborator: visible, step counter, message
  sound,           \* soundManager fields and its pending ambient timers
  soundsInitialized, \* first-interaction latch
  voice,           \* the sound manager of scripts/tour.ts, which narrates:
                   \* its fields, its ambient timers, the speech synthesiser
  op,              \* history: the last event and the tour operation it invoked
  pre              \* history: a snapshot of the machine before the last event

vars ==
  << pathname, search, localStorage, env, state, tourSteps, reveals, phase,
     startTimer, navTo, catGuide, tourSpotlight, speechBubble, sound,
     soundsInitialized, voice, op, pre >>

(***************************************************************************)
(* Bounds of the model.                                                    *)
(***************************************************************************)
\* Outstanding typeMessage promises a page may hold at once.
MaxReveals == 2

\* Ambient timers that may be pending at once before the model stops
\* scheduling more (the code keeps one).
MaxTimers == 2

(***************************************************************************)
(* Constants of the program.                                               *)
(***************************************************************************)
STORAGE_KEY == "portfolio_tour_v1"

TOUR_STEP_KEY == "portfolio_tour_step"

TOUR_ACTIVE_KEY == "portfolio_tour_active"

TYPING_SPEED == 25

TOUR_PARAM == "start-tour"

\* A path is the sequence of its tokens: "/" and the names between slashes.
\* '/' is <<"/">>, '/about' is <<"/", "about">>, '/about/' ends in a "/".
HOME_PATH == <<"/">>

INDEX_HTML == <<"/", "index.html">>

\* The absent path: an undefined navigateTo, falsy like the empty string.
NoPath == <<>>

\* A null target selector.
NoTarget == "null"

\* localStorage.getItem of an absent key.
NULL == "NULL"

pageOrder ==
  << <<"/">>, <<"/", "about">>, <<"/", "skills">>, <<"/", "projects">>,
     <<"/", "experience">>, <<"/", "contact">>, <<"/", "blog">> >>

Step(id, target, animation, message, welcomeMode, navigateTo, page) ==
  [ id |-> id, target |-> target, animation |-> animation,
    message |-> message, welcomeMode |-> welcomeMode,
    navigateTo |-> navigateTo, page |-> page ]

HomeTour ==
  <<
     Step("welcome", NoTarget, "waving",
          "Meow! I'm Neko, your guide on this homepage. Let me show you around!",
          TRUE, NoPath, <<"/">>),
     Step("ascii-art", "[data-tour-id='ascii-art']", "pointing",
          "This is Ade's digital signature. Pretty cool ASCII art, right?",
          FALSE, NoPath, <<"/">>),
     Step("intro-terminal", "[data-tour-id='intro-terminal']", "typing",
          "Here's the quick intro - a fullstack engineer with 5+ years of experience!",
          FALSE, NoPath, <<"/">>),
     Step("nav-cards", "[data-tour-id='nav-cards']", "pointing",
          "These cards are shortcuts to explore different sections.",
          FALSE, NoPath, <<"/">>),
     Step("matrix-toggle", "#matrix-toggle", "pointing",
          "Psst... try this button for a cool Matrix rain effect!",
          FALSE, NoPath, <<"/">>),
     Step("complete", NoTarget, "celebrating",
          "That's my tour! Click Next to meet Mochi on the About page!",
          TRUE, <<"/", "about">>, <<"/">>)
  >>

AboutTour ==
  <<
     Step("welcome", NoTarget, "waving",
          "Hey there! I'm Mochi, the orange cat! Neko sent you? Let me tell you about Ade!",
          TRUE, NoPath, <<"/", "about">>),
     Step("bio", "[data-tour-id='page-content'] .terminal-window", "typing",
          "Here's the bio - a self-taught fullstack engineer who's been coding for 5+ years!",
          FALSE, NoPath, <<"/", "about">>),
     Step("stats", "[data-tour-id='page-content'] .grid", "pointing",
          "5+ years, 5 companies, 15+ technologies, 5 industries - impressive numbers!",
          FALSE, NoPath, <<"/", "about">>),
     Step("complete", NoTarget, "celebrating",
          "That's all about Ade! Click Next to meet Yuki on the Skills page!",
          TRUE, <<"/", "skills">>, <<"/", "about">>)
  >>

SkillsTour ==
  <<
     Step("welcome", NoTarget, "waving",
          "Purr! I'm Yuki, the white cat! Mochi told me you're coming! Let me show you Ade's skills!",
          TRUE, NoPath, <<"/", "skills">>),
     Step("skills-list", "[data-tour-id='page-content']", "typing",
          "Frontend, Backend, Database, DevOps - full stack expertise with beautiful progress bars!",
          FALSE, NoPath, <<"/", "skills">>),
     Step("complete", NoTarget, "celebrating",
          "So many skills! Click Next to meet Shadow on the Projects page!",
          TRUE, <<"/", "projects">>, <<"/", "skills">>)
  >>

ProjectsTour ==
  <<
     Step("welcome", NoTarget, "waving",
          "*emerges from shadows* I'm Shadow. Yuki mentioned you... Let me show you the projects.",
          TRUE, NoPath, <<"/", "projects">>),
     Step("projects-list", "[data-tour-id='page-content']", "pointing",
          "Healthcare, Fintech, Banking, Education, Gaming - diverse industries, real impact.",
          FALSE, NoPath, <<"/", "projects">>),
     Step("complete", NoTarget, "celebrating",
          "Impressive work... Click Next to meet Patches on the Experience page...",
          TRUE, <<"/", "experience">>, <<"/", "projects">>)
  >>

ExperienceTour ==
  <<
     Step("welcome", NoTarget, "waving",
          "Meow meow! I'm Patches the calico! Shadow said you're on a tour! Let's see the career journey!",
          TRUE, NoPath, <<"/", "experience">>),
     Step("timeline", "[data-tour-id='page-content']", "typing",
          "5 companies, 5+ years of growth - from junior developer to leading teams!",
          FALSE, NoPath, <<"/", "experience">>),
     Step("complete", NoTarget, "celebrating",
          "What a journey! Click Next to meet Splash on the Contact page!",
          TRUE, <<"/", "contact">>, <<"/", "experience">>)
  >>

ContactTour ==
  <<
     Step("welcome", NoTarget, "waving",
          "Splashy hello! I'm Splash! Patches told me you've met everyone! Ready to connect with Ade?",
          TRUE, NoPath, <<"/", "contact">>),
     Step("contact-info", "[data-tour-id='page-content']", "pointing",
          "Email, WhatsApp, LinkedIn, GitHub - so many ways to reach out!",
          FALSE, NoPath, <<"/", "contact">>),
     Step("complete", NoTarget, "celebrating",
          "Almost done! Click Next to meet Pixel on the Blog page!",
          TRUE, <<"/", "blog">>, <<"/", "contact">>)
  >>

BlogTour ==
  <<
     Step("welcome", NoTarget, "waving",
          "Nyaa~! I'm Pixel, the last cat! You've met everyone! Welcome to the blog!",
          TRUE, NoPath, <<"/", "blog">>),
     Step("blog-posts", "[data-tour-id='page-content']", "typing",
          "Here you'll find technical articles, tutorials, and dev stories!",
          FALSE, NoPath, <<"/", "blog">>),
     Step("complete", NoTarget, "celebrating",
          "Tour complete! You've met all 7 cats! Feel free to explore anytime!",
          TRUE, NoPath, <<"/", "blog">>)
  >>
\* pageTours with the blog script left out of the registry.
pageTours_NoBlog ==
  (<<"/">> :> HomeTour) @@ (<<"/", "about">> :> AboutTour)
  @@ (<<"/", "skills">> :> SkillsTour) @@ (<<"/", "projects">> :> ProjectsTour)
  @@ (<<"/", "experience">> :> ExperienceTour)
  @@ (<<"/", "contact">> :> ContactTour)
\* pageTours whose blog script ends with a hop back to the home page.
pageTours_BlogLoops ==
  (<<"/">> :> HomeTour) @@ (<<"/", "about">> :> AboutTour)
  @@ (<<"/", "skills">> :> SkillsTour) @@ (<<"/", "projects">> :> ProjectsTour)
  @@ (<<"/", "experience">> :> ExperienceTour)
  @@ (<<"/", "contact">> :> ContactTour)
  @@ (<<"/", "blog">> :> [BlogTour EXCEPT ![Len(BlogTour)].navigateTo = <<"/">>])

pageTours ==
  (<<"/">> :> HomeTour) @@ (<<"/", "about">> :> AboutTour)
  @@ (<<"/", "skills">> :> SkillsTour) @@ (<<"/", "projects">> :> ProjectsTour)
  @@ (<<"/", "experience">> :> ExperienceTour)
  @@ (<<"/", "contact">> :> ContactTour) @@ (<<"/", "blog">> :> BlogTour)
\* getTourStepsForPage without the fallback: pageTours[page] || []
getTourStepsForPage_NoFallback(page) ==
  IF page \in DOMAIN pageTours THEN pageTours[page] ELSE <<>>

\* pageTours[page] || pageTours['/']
getTourStepsForPage(page) ==
  IF page \in DOMAIN pageTours THEN pageTours[page] ELSE pageTours[HOME_PATH]

\* pageOrder.indexOf(currentPage), 0-based, -1 when absent
IndexOf(seq, x) ==
  IF \E i \in 1..Len(seq) : seq[i] = x
  THEN (CHOOSE i \in 1..Len(seq) : seq[i] = x /\ \A j \in 1..(i-1) : seq[j] # x) - 1
  ELSE -1

getNextPage(currentPage) ==
  LET currentIndex == IndexOf(pageOrder, currentPage)
  IN  IF currentIndex = -1 \/ currentIndex >= Len(pageOrder) - 1
      THEN NoPath
      ELSE pageOrder[currentIndex + 2]

(***************************************************************************)
(* The machine: everything a handler reads or writes.                      *)
(***************************************************************************)
Machine ==
  [ pathname |-> pathname, search |-> search, localStorage |-> localStorage,
    env |-> env, state |-> state, tourSteps |-> tourSteps,
    reveals |-> reveals, phase |-> phase, startTimer |-> startTimer,
    navTo |-> navTo, catGuide |-> catGuide, tourSpotlight |-> tourSpotlight,
    speechBubble |-> speechBubble, sound |-> sound,
    soundsInitialized |-> soundsInitialized, voice |-> voice ]

\* const state: TourState = { currentStep: 0, isActive: false, ... }
InitialTourState ==
  [ currentStep |-> 0, isActive |-> FALSE, isTyping |-> FALSE,
    hasCompleted |-> FALSE ]

\* const soundManager = { audioContext: null, isEnabled: true, volume: 0.5,
\* purrInterval: null }.  The volume is kept in tenths; purrInterval 0 is
\* null; timers is the set of pending ambient timeouts; calls and out are
\* the play methods called, and the sounds synthesised, by the last event.
InitialSound ==
  [ audioContext |-> FALSE, isEnabled |-> TRUE, volume |-> 5,
    purrInterval |-> 0, timers |-> {}, calls |-> {}, out |-> {} ]

\* currentUtterance: null
NoUtterance == <<>>

\* The sound manager of scripts/tour.ts: { audioContext: null, isEnabled:
\* true, voiceEnabled: true, volume: 0.5, purrInterval: null, speechSynth:
\* null, currentUtterance: null }.  An utterance is its text and volume (in
\* hundredths); speaking is what the synthesiser has been handed and has not
\* finished or cancelled; said is what the last event handed it.
InitialVoice ==
  [ audioContext |-> FALSE, isEnabled |-> TRUE, voiceEnabled |-> TRUE,
    volume |-> 5, purrInterval |-> 0, timers |-> {}, speechSynth |-> FALSE,
    currentUtterance |-> NoUtterance, speaking |-> NoUtterance,
    out |-> {}, said |-> {} ]

(***************************************************************************)
(* Persistence: localStorage behind try/catch.  With storage unavailable   *)
(* every access throws and is swallowed.                                   *)
(***************************************************************************)
setItem(m, key, value) ==
  IF m.env.storage THEN [m EXCEPT !.localStorage[key] = value] ELSE m

removeItem(m, key) ==
  IF m.env.storage THEN [m EXCEPT !.localStorage[key] = NULL] ELSE m

\* setTourActive whose removal is left out: the flag, once set, stays.
setTourActive_NeverRemoves(m, active) ==
  IF active THEN setItem(m, TOUR_ACTIVE_KEY, "true") ELSE m

setTourActive(m, active) ==
  IF active THEN setItem(m, TOUR_ACTIVE_KEY, "true")
  ELSE removeItem(m, TOUR_ACTIVE_KEY)
\* isTourActive whose catch branch answers true.
isTourActive_CatchTrue(m) ==
  IF m.env.storage THEN m.localStorage[TOUR_ACTIVE_KEY] = "true" ELSE TRUE

isTourActive(m) ==
  IF m.env.storage THEN m.localStorage[TOUR_ACTIVE_KEY] = "true" ELSE FALSE

hasCompletedTour(m) ==
  IF m.env.storage THEN m.localStorage[STORAGE_KEY] = "true" ELSE FALSE

markTourCompleted(m) == setItem(m, STORAGE_KEY, "true")

clearSavedTourStep(m) == removeItem(m, TOUR_STEP_KEY)

(***************************************************************************)
(* Location.                                                               *)
(***************************************************************************)
\* isHomePage that forgets '/index.html'.
isHomePage_RootOnly(m) == m.pathname = HOME_PATH

isHomePage(m) == m.pathname = HOME_PATH \/ m.pathname = INDEX_HTML
\* getCurrentPage without the exception for the root.
getCurrentPage_StripsRoot(m) ==
  LET path == m.pathname
  IN  IF Len(path) > 0 /\ path[Len(path)] = "/"
      THEN SubSeq(path, 1, Len(path) - 1)
      ELSE path

\* path.endsWith('/') && path !== '/' ? path.slice(0, -1) : path
getCurrentPage(m) ==
  LET path == m.pathname
  IN  IF Len(path) > 0 /\ path[Len(path)] = "/" /\ path # <<"/">>
      THEN SubSeq(path, 1, Len(path) - 1)
      ELSE path

shouldStartFromUrl(m) == TOUR_PARAM \in m.search

\* clearTourParam that deletes the parameter from its URL object and never
\* writes the URL back.
clearTourParam_KeepsQuery(m) == m
\* clearTourParam that writes back the URL it deleted the parameter from:
\* replaceState({}, '', url) keeps the other query parameters.
clearTourParam_KeepsOtherParams(m) ==
  [m EXCEPT !.search = m.search \ {TOUR_PARAM}]

\* history.replaceState({}, '', url.pathname): the visible URL becomes the
\* pathname alone; the page is not reloaded.
clearTourParam(m) ==
  LET url == [pathname |-> m.pathname, search |-> m.search \ {TOUR_PARAM}]
  IN  [m EXCEPT !.pathname = url.pathname, !.search = {}]

getCurrentStep(m) == m.tourSteps[m.state.currentStep + 1]

loadTourForCurrentPage(m) ==
  [m EXCEPT !.tourSteps = getTourStepsForPage(getCurrentPage(m))]

(***************************************************************************)
(* Sound manager.                                                          *)
(***************************************************************************)
\* new AudioContext() throws where Web Audio is not supported.
soundInit(m) ==
  IF ~m.sound.audioContext
  THEN IF m.env.audio
       THEN [m EXCEPT !.sound.audioContext = TRUE]
       ELSE [m EXCEPT !.sound.isEnabled = FALSE]
  ELSE m
\* The play methods without the isEnabled half of their guard.
play_IgnoresEnabled(m, kind) ==
  LET called == [m EXCEPT !.sound.calls = @ \cup {kind}]
  IN  IF ~m.sound.audioContext
      THEN called
      ELSE [called EXCEPT !.sound.out = @ \cup {kind}]

\* playTypingSound, playMeow, playPurr, playSuccess: the common guard
\* if (!this.isEnabled || !this.audioContext) return, then the synthesis.
play(m, kind) ==
  LET called == [m EXCEPT !.sound.calls = @ \cup {kind}]
  IN  IF ~m.sound.isEnabled \/ ~m.sound.audioContext
      THEN called
      ELSE [called EXCEPT !.sound.out = @ \cup {kind}]

playMeow(m) == play(m, "meow")

playPurr(m) == play(m, "purr")

playSuccess(m) == play(m, "success")

\* window.setTimeout returns a handle no pending timer has.
NewTimer(m) == CHOOSE t \in 1..(MaxTimers + 1) : t \notin m.sound.timers
\* startAmbientPurr without the guard on a chain already scheduled.
startAmbientPurr_NoGuard(m) ==
  LET t == NewTimer(m)
  IN  [m EXCEPT !.sound.purrInterval = t, !.sound.timers = @ \cup {t}]

startAmbientPurr(m) ==
  IF m.sound.purrInterval # 0 THEN m
  ELSE LET t == NewTimer(m)
       IN  [m EXCEPT !.sound.purrInterval = t, !.sound.timers = @ \cup {t}]
\* playRandomPurr that purrs and schedules no successor.
playRandomPurr_NoSuccessor(m, t) ==
  LET fired  == [m EXCEPT !.sound.timers = @ \ {t}]
      purred == IF fired.sound.isEnabled /\ fired.sound.audioContext
                THEN playPurr(fired) ELSE fired
  IN  [purred EXCEPT !.sound.purrInterval = 0]

\* The timer callback playRandomPurr of startAmbientPurr, for timer t.
playRandomPurr(m, t) ==
  LET fired  == [m EXCEPT !.sound.timers = @ \ {t}]
      purred == IF fired.sound.isEnabled /\ fired.sound.audioContext
                THEN playPurr(fired) ELSE fired
      next   == NewTimer(purred)
  IN  [purred EXCEPT !.sound.purrInterval = next,
                     !.sound.timers = @ \cup {next}]

stopAmbientPurr(m) ==
  IF m.sound.purrInterval # 0
  THEN [m EXCEPT !.sound.timers = @ \ {m.sound.purrInterval},
                 !.sound.purrInterval = 0]
  ELSE m

\* Number.NaN, which a parameter of type number can be.  Volumes are kept in
\* tenths; NaN is represented by an integer no volume in tenths takes.
NaN == -999

\* Math.min and Math.max: NaN if either argument is NaN.
MathMin(a, b) == IF a = NaN \/ b = NaN THEN NaN ELSE IF a < b THEN a ELSE b

MathMax(a, b) == IF a = NaN \/ b = NaN THEN NaN ELSE IF a > b THEN a ELSE b

\* this.volume = Math.max(0, Math.min(1, volume)), in tenths.
setVolume(m, volume) ==
  [m EXCEPT !.sound.volume = MathMax(0, MathMin(10, volume))]

setEnabled(m, enabled) ==
  LET set == [m EXCEPT !.sound.isEnabled = enabled]
  IN  IF ~enabled THEN stopAmbientPurr(set) ELSE set

playTypingSound(m) == play(m, "typing")

SoundCalls ==
  { "init", "playTypingSound", "playMeow", "playPurr", "playSuccess",
    "startAmbientPurr", "stopAmbientPurr", "setEnabled(true)",
    "setEnabled(false)" }

\* A method of window.soundManager called from outside the tour (the
\* bubble's reveal, a sound toggle).
soundCall(m, call) ==
  CASE call = "init" -> soundInit(m)
    [] call = "playTypingSound" -> playTypingSound(m)
    [] call = "playMeow" -> playMeow(m)
    [] call = "playPurr" -> playPurr(m)
    [] call = "playSuccess" -> playSuccess(m)
    [] call = "startAmbientPurr" -> startAmbientPurr(m)
    [] call = "stopAmbientPurr" -> stopAmbientPurr(m)
    [] call = "setEnabled(true)" -> setEnabled(m, TRUE)
    [] call = "setEnabled(false)" -> setEnabled(m, FALSE)

(***************************************************************************)
(* The sound manager of scripts/tour.ts: the same synthesiser with voice   *)
(* narration through the browser's speech synthesis.  A message is a       *)
(* sequence of tokens: words, white space and markdown characters.  The    *)
(* choice of a preferred voice (findCuteVoice) is left out: it sets the    *)
(* utterance's voice only.                                                 *)
(***************************************************************************)
\* The characters * _ ~ and the backquote, the last one by name.
MarkdownChars == {"*", "_", "~", "backquote"}

WhiteSpace == {" ", "\n"}

\* message.replace(/[*_~backquote]/g, '')
RemoveMarkdown(message) == SelectSeq(message, LAMBDA c : c \notin MarkdownChars)

\* .replace(/\s+/g, ' ')
RECURSIVE NormalizeWhitespace(_)
NormalizeWhitespace(message) ==
  IF message = <<>> THEN <<>>
  ELSE IF Head(message) \in WhiteSpace
  THEN IF Len(message) > 1 /\ message[2] \in WhiteSpace
       THEN NormalizeWhitespace(Tail(message))
       ELSE <<" ">> \o NormalizeWhitespace(Tail(message))
  ELSE <<Head(message)>> \o NormalizeWhitespace(Tail(message))

\* .trim()
RECURSIVE Trim(_)
Trim(message) ==
  IF message = <<>> THEN <<>>
  ELSE IF Head(message) \in WhiteSpace THEN Trim(Tail(message))
  ELSE IF message[Len(message)] \in WhiteSpace
  THEN Trim(SubSeq(message, 1, Len(message) - 1))
  ELSE message

cleanMessage(message) == Trim(NormalizeWhitespace(RemoveMarkdown(message)))

\* new SpeechSynthesisUtterance(cleanMessage) with utterance.volume =
\* this.volume * 1.5, in hundredths.
Utterance(text, volume) == <<text, volume * 15>>

initVoice(m) ==
  IF ~m.env.speech THEN [m EXCEPT !.voice.voiceEnabled = FALSE]
  ELSE [m EXCEPT !.voice.speechSynth = TRUE]

voiceInit(m) ==
  LET m1 == IF ~m.voice.audioContext
            THEN IF m.env.audio
                 THEN [m EXCEPT !.voice.audioContext = TRUE]
                 ELSE [m EXCEPT !.voice.isEnabled = FALSE]
            ELSE m
  IN  initVoice(m1)

\* playTypingSound, playMeow, playPurr, playSuccess of scripts/tour.ts.
voicePlay(m, kind) ==
  IF ~m.voice.isEnabled \/ ~m.voice.audioContext THEN m
  ELSE [m EXCEPT !.voice.out = @ \cup {kind}]

stopSpeaking(m) ==
  LET m1 == IF m.voice.speechSynth
            THEN [m EXCEPT !.voice.speaking = NoUtterance] ELSE m
  IN  [m1 EXCEPT !.voice.currentUtterance = NoUtterance]

speakMessage(m, message) ==
  IF ~m.voice.voiceEnabled \/ ~m.voice.speechSynth THEN m
  ELSE LET m1 == stopSpeaking(m)
           utterance == Utterance(cleanMessage(message), m1.voice.volume)
       IN  [m1 EXCEPT !.voice.currentUtterance = utterance,
                      !.voice.speaking = utterance,
                      !.voice.said = @ \cup {utterance}]

NewVoiceTimer(m) == CHOOSE t \in 1..(MaxTimers + 1) : t \notin m.voice.timers

voiceStartAmbientPurr(m) ==
  IF m.voice.purrInterval # 0 THEN m
  ELSE LET t == NewVoiceTimer(m)
       IN  [m EXCEPT !.voice.purrInterval = t, !.voice.timers = @ \cup {t}]

voicePlayRandomPurr(m, t) ==
  LET fired  == [m EXCEPT !.voice.timers = @ \ {t}]
      purred == IF fired.voice.isEnabled /\ fired.voice.audioContext
                THEN voicePlay(fired, "purr") ELSE fired
      next   == NewVoiceTimer(purred)
  IN  [purred EXCEPT !.voice.purrInterval = next,
                     !.voice.timers = @ \cup {next}]

voiceStopAmbientPurr(m) ==
  IF m.voice.purrInterval # 0
  THEN [m EXCEPT !.voice.timers = @ \ {m.voice.purrInterval},
                 !.voice.purrInterval = 0]
  ELSE m

voiceSetEnabled(m, enabled) ==
  LET set == [m EXCEPT !.voice.isEnabled = enabled]
  IN  IF ~enabled THEN stopSpeaking(voiceStopAmbientPurr(set)) ELSE set

setVoiceEnabled(m, enabled) ==
  LET set == [m EXCEPT !.voice.voiceEnabled = enabled]
  IN  IF ~enabled THEN stopSpeaking(set) ELSE set

\* Math.max(0, Math.min(1, volume)), in tenths.
voiceSetVolume(m, volume) ==
  [m EXCEPT !.voice.volume = MathMax(0, MathMin(10, volume))]

VoiceCalls ==
  { "init", "playTypingSound", "playMeow", "playPurr", "playSuccess",
    "speakMessage", "stopSpeaking", "startAmbientPurr", "stopAmbientPurr",
    "setEnabled(true)", "setEnabled(false)", "setVoiceEnabled(true)",
    "setVoiceEnabled(false)", "setVolume" }

\* A method of the narrating window.soundManager, called by the page.
voiceCall(m, call, message, volume) ==
  CASE call = "init" -> voiceInit(m)
    [] call = "playTypingSound" -> voicePlay(m, "typing")
    [] call = "playMeow" -> voicePlay(m, "meow")
    [] call = "playPurr" -> voicePlay(m, "purr")
    [] call = "playSuccess" -> voicePlay(m, "success")
    [] call = "speakMessage" -> speakMessage(m, message)
    [] call = "stopSpeaking" -> stopSpeaking(m)
    [] call = "startAmbientPurr" -> voiceStartAmbientPurr(m)
    [] call = "stopAmbientPurr" -> voiceStopAmbientPurr(m)
    [] call = "setEnabled(true)" -> voiceSetEnabled(m, TRUE)
    [] call = "setEnabled(false)" -> voiceSetEnabled(m, FALSE)
    [] call = "setVoiceEnabled(true)" -> setVoiceEnabled(m, TRUE)
    [] call = "setVoiceEnabled(false)" -> setVoiceEnabled(m, FALSE)
    [] call = "setVolume" -> voiceSetVolume(m, volume)

(***************************************************************************)
(* Presentation collaborators (mascot, overlay, speech bubble).  Their     *)
(* code is outside the tour script; they are modelled by the capability    *)
(* contract the tour calls, and are taken to be mounted on every page.     *)
(***************************************************************************)
InitialCatGuide == [visible |-> FALSE, animation |-> "idle"]

InitialSpotlight == [visible |-> FALSE, welcomeMode |-> FALSE, target |-> NoTarget]

InitialBubble ==
  [ visible |-> FALSE, welcomeMode |-> FALSE, current |-> 0, total |-> 0,
    message |-> "", full |-> FALSE ]

catSetAnimation(m, animation) == [m EXCEPT !.catGuide.animation = animation]

catShow(m) == [m EXCEPT !.catGuide.visible = TRUE]

spotlightSetWelcomeMode(m, enabled) == [m EXCEPT !.tourSpotlight.welcomeMode = enabled]

spotlightShow(m) == [m EXCEPT !.tourSpotlight.visible = TRUE]

spotlightHide(m) == [m EXCEPT !.tourSpotlight.visible = FALSE]

spotlightHighlightElement(m, selector) == [m EXCEPT !.tourSpotlight.target = selector]

bubbleSetStep(m, current, total) ==
  [m EXCEPT !.speechBubble.current = current, !.speechBubble.total = total]

bubbleShow(m, welcomeMode) ==
  [m EXCEPT !.speechBubble.visible = TRUE, !.speechBubble.welcomeMode = welcomeMode]

bubbleHide(m) == [m EXCEPT !.speechBubble.visible = FALSE]

NoReveals == [cur |-> FALSE, old |-> 0]

Outstanding(r) == r.old + (IF r.cur THEN 1 ELSE 0)

\* typeMessage(text, speed) starts revealing text and returns a promise.
\* The reveal a render starts is the current one; a reveal still running
\* when a later render starts another is superseded, and stays outstanding
\* until its promise resolves.
bubbleTypeMessage(m, message, speed) ==
  [m EXCEPT !.speechBubble.message = message,
            !.speechBubble.full = FALSE,
            !.reveals = [cur |-> TRUE, old |-> Outstanding(m.reveals)]]

\* skipTyping(fullMessage) shows the whole text at once; the reveal in
\* progress resolves immediately.
bubbleSkipTyping(m, fullMessage) ==
  [m EXCEPT !.speechBubble.message = fullMessage,
            !.speechBubble.full = TRUE,
            !.reveals.cur = FALSE]

(***************************************************************************)
(* Tour orchestrator.                                                      *)
(***************************************************************************)
\* renderStep up to its await: the reveal it starts stays in reveals, and
\* the statement after the await is RevealResolved below.
renderStep(m) ==
  LET step == getCurrentStep(m)
      m1 == catSetAnimation(m, step.animation)
      m2 == IF step.animation = "celebrating" /\ m1.env.soundManager
            THEN playPurr(m1) ELSE m1
      m3 == IF step.welcomeMode
            THEN spotlightShow(spotlightSetWelcomeMode(m2, TRUE))
            ELSE spotlightHighlightElement(
                   spotlightShow(spotlightSetWelcomeMode(m2, FALSE)), step.target)
      m4 == bubbleShow(
              bubbleSetStep(m3, m3.state.currentStep + 1, Len(m3.tourSteps)),
              step.welcomeMode)
      m5 == [m4 EXCEPT !.state.isTyping = TRUE]
  IN  bubbleTypeMessage(m5, step.message, TYPING_SPEED)

\* await window.speechBubble.typeMessage(...); state.isTyping = false
afterReveal(m) == [m EXCEPT !.state.isTyping = FALSE]

\* completeTour that does not persist the completion flag.
completeTour_NoMark(m) ==
  LET m1 == [m EXCEPT !.state.isActive = FALSE, !.state.hasCompleted = TRUE]
      m3 == clearSavedTourStep(m1)
      m4 == setTourActive(m3, FALSE)
      m5 == IF m4.env.soundManager THEN playSuccess(m4) ELSE m4
      m6 == spotlightHide(m5)
      m7 == bubbleHide(m6)
  IN  catSetAnimation(m7, "idle")

\* completeTour that leaves the resume-step key in storage.
completeTour_KeepsSavedStep(m) ==
  LET m1 == [m EXCEPT !.state.isActive = FALSE, !.state.hasCompleted = TRUE]
      m2 == markTourCompleted(m1)
      m4 == setTourActive(m2, FALSE)
      m5 == IF m4.env.soundManager THEN playSuccess(m4) ELSE m4
      m6 == spotlightHide(m5)
      m7 == bubbleHide(m6)
  IN  catSetAnimation(m7, "idle")

completeTour(m) ==
  LET m1 == [m EXCEPT !.state.isActive = FALSE, !.state.hasCompleted = TRUE]
      m2 == markTourCompleted(m1)
      m3 == clearSavedTourStep(m2)
      m4 == setTourActive(m3, FALSE)
      m5 == IF m4.env.soundManager THEN playSuccess(m4) ELSE m4
      m6 == spotlightHide(m5)
      m7 == bubbleHide(m6)
  IN  catSetAnimation(m7, "idle")
\* skipTour that returns when no tour is active.
skipTour_OnlyWhenActive(m) ==
  IF ~m.state.isActive THEN m ELSE completeTour(setTourActive(m, FALSE))

skipTour(m) == completeTour(setTourActive(m, FALSE))

\* nextStep without the typing short-circuit: it advances while the
\* message is still being revealed.
nextStep_NoTypingGuard(m) ==
  IF ~m.state.isActive THEN m
  ELSE IF m.state.currentStep < Len(m.tourSteps) - 1
  THEN LET m1 == [m EXCEPT !.state.currentStep = @ + 1]
           m2 == IF m1.env.soundManager /\ m1.state.currentStep % 2 = 0
                 THEN playMeow(m1) ELSE m1
       IN  renderStep(m2)
  ELSE LET currentStep == getCurrentStep(m)
       IN  IF currentStep.navigateTo # NoPath
           THEN [setTourActive(m, TRUE) EXCEPT !.navTo = currentStep.navigateTo]
           ELSE completeTour(m)

\* nextStep that completes the tour at every last step, navigateTo or not.
nextStep_AlwaysCompletes(m) ==
  IF ~m.state.isActive THEN m
  ELSE IF m.state.isTyping
  THEN [bubbleSkipTyping(m, getCurrentStep(m).message)
          EXCEPT !.state.isTyping = FALSE]
  ELSE IF m.state.currentStep < Len(m.tourSteps) - 1
  THEN LET m1 == [m EXCEPT !.state.currentStep = @ + 1]
           m2 == IF m1.env.soundManager /\ m1.state.currentStep % 2 = 0
                 THEN playMeow(m1) ELSE m1
       IN  renderStep(m2)
  ELSE completeTour(m)
\* nextStep that increments the index before it tests for the last step.
nextStep_IncrementsFirst(m) ==
  IF ~m.state.isActive THEN m
  ELSE IF m.state.isTyping
  THEN [bubbleSkipTyping(m, getCurrentStep(m).message)
          EXCEPT !.state.isTyping = FALSE]
  ELSE LET m1 == [m EXCEPT !.state.currentStep = @ + 1]
       IN  IF m1.state.currentStep < Len(m1.tourSteps)
           THEN LET m2 == IF m1.env.soundManager /\ m1.state.currentStep % 2 = 0
                          THEN playMeow(m1) ELSE m1
                IN  renderStep(m2)
           ELSE LET currentStep == getCurrentStep(m)
                IN  IF currentStep.navigateTo # NoPath
                    THEN [setTourActive(m1, TRUE)
                            EXCEPT !.navTo = currentStep.navigateTo]
                    ELSE completeTour(m1)
\* nextStep that handles the last step before it looks at isTyping.
nextStep_LastStepFirst(m) ==
  IF ~m.state.isActive THEN m
  ELSE IF m.state.currentStep >= Len(m.tourSteps) - 1
  THEN LET currentStep == getCurrentStep(m)
       IN  IF currentStep.navigateTo # NoPath
           THEN [setTourActive(m, TRUE) EXCEPT !.navTo = currentStep.navigateTo]
           ELSE completeTour(m)
  ELSE IF m.state.isTyping
  THEN [bubbleSkipTyping(m, getCurrentStep(m).message)
          EXCEPT !.state.isTyping = FALSE]
  ELSE LET m1 == [m EXCEPT !.state.currentStep = @ + 1]
           m2 == IF m1.env.soundManager /\ m1.state.currentStep % 2 = 0
                 THEN playMeow(m1) ELSE m1
       IN  renderStep(m2)

\* nextStep that advances by two where two steps are left.
nextStep_SkipsAStep(m) ==
  IF ~m.state.isActive THEN m
  ELSE IF m.state.isTyping
  THEN [bubbleSkipTyping(m, getCurrentStep(m).message)
          EXCEPT !.state.isTyping = FALSE]
  ELSE IF m.state.currentStep < Len(m.tourSteps) - 1
  THEN LET m1 == [m EXCEPT !.state.currentStep =
                     IF @ + 2 < Len(m.tourSteps) THEN @ + 2 ELSE @ + 1]
           m2 == IF m1.env.soundManager /\ m1.state.currentStep % 2 = 0
                 THEN playMeow(m1) ELSE m1
       IN  renderStep(m2)
  ELSE LET currentStep == getCurrentStep(m)
       IN  IF currentStep.navigateTo # NoPath
           THEN [setTourActive(m, TRUE) EXCEPT !.navTo = currentStep.navigateTo]
           ELSE completeTour(m)

nextStep(m) ==
  IF ~m.state.isActive THEN m
  ELSE IF m.state.isTyping
  THEN [bubbleSkipTyping(m, getCurrentStep(m).message)
          EXCEPT !.state.isTyping = FALSE]
  ELSE IF m.state.currentStep < Len(m.tourSteps) - 1
  THEN LET m1 == [m EXCEPT !.state.currentStep = @ + 1]
           m2 == IF m1.env.soundManager /\ m1.state.currentStep % 2 = 0
                 THEN playMeow(m1) ELSE m1
       IN  renderStep(m2)
  ELSE LET currentStep == getCurrentStep(m)
       IN  IF currentStep.navigateTo # NoPath
           THEN [setTourActive(m, TRUE) EXCEPT !.navTo = currentStep.navigateTo]
           ELSE completeTour(m)
\* prevStep without the isActive guard.
prevStep_NoActiveGuard(m) ==
  IF m.state.currentStep > 0
  THEN renderStep([m EXCEPT !.state.currentStep = @ - 1])
  ELSE m
\* prevStep that decrements the index and renders nothing.
prevStep_NoRender(m) ==
  IF ~m.state.isActive THEN m
  ELSE IF m.state.currentStep > 0
  THEN [m EXCEPT !.state.currentStep = @ - 1]
  ELSE m

prevStep(m) ==
  IF ~m.state.isActive THEN m
  ELSE IF m.state.currentStep > 0
  THEN renderStep([m EXCEPT !.state.currentStep = @ - 1])
  ELSE m

\* startTour that keeps the step index it finds.
startTour_KeepsStep(m) ==
  LET m1 == IF m.env.soundManager
            THEN startAmbientPurr(playMeow(soundInit(m))) ELSE m
      m2 == loadTourForCurrentPage(m1)
      m3 == [m2 EXCEPT !.state.isActive = TRUE, !.state.hasCompleted = FALSE]
      m4 == setTourActive(m3, TRUE)
      m5 == catShow(m4)
  IN  renderStep(m5)
\* startTour without the check that window.soundManager exists: where it is
\* absent the call on undefined throws and the start is abandoned.
startTour_NeedsSoundManager(m) ==
  IF ~m.env.soundManager THEN m
  ELSE LET m1 == startAmbientPurr(playMeow(soundInit(m)))
           m2 == loadTourForCurrentPage(m1)
           m3 == [m2 EXCEPT !.state.currentStep = 0, !.state.isActive = TRUE,
                            !.state.hasCompleted = FALSE]
           m4 == setTourActive(m3, TRUE)
           m5 == catShow(m4)
       IN  renderStep(m5)
\* startTour that does not persist the cross-page-active flag.
startTour_NoActiveFlag(m) ==
  LET m1 == IF m.env.soundManager
            THEN startAmbientPurr(playMeow(soundInit(m))) ELSE m
      m2 == loadTourForCurrentPage(m1)
      m3 == [m2 EXCEPT !.state.currentStep = 0, !.state.isActive = TRUE,
                       !.state.hasCompleted = FALSE]
      m5 == catShow(m3)
  IN  renderStep(m5)
\* startTour that also removes the persisted completion flag
\* (clearTourCompletion).
startTour_ClearsCompletion(m) ==
  LET m1 == IF m.env.soundManager
            THEN startAmbientPurr(playMeow(soundInit(m))) ELSE m
      m2 == loadTourForCurrentPage(m1)
      m3 == [m2 EXCEPT !.state.currentStep = 0, !.state.isActive = TRUE,
                       !.state.hasCompleted = FALSE]
      m4 == setTourActive(removeItem(m3, STORAGE_KEY), TRUE)
      m5 == catShow(m4)
  IN  renderStep(m5)
\* startTour that begins at the step stored under the resume-step key
\* (getSavedTourStep).
startTour_FromSavedStep(m) ==
  LET m1 == IF m.env.soundManager
            THEN startAmbientPurr(playMeow(soundInit(m))) ELSE m
      m2 == loadTourForCurrentPage(m1)
      saved == IF m2.env.storage /\ m2.localStorage[TOUR_STEP_KEY] = "2" THEN 2 ELSE 0
      m3 == [m2 EXCEPT !.state.currentStep = saved, !.state.isActive = TRUE,
                       !.state.hasCompleted = FALSE]
      m4 == setTourActive(m3, TRUE)
      m5 == catShow(m4)
  IN  renderStep(m5)

\* (renderStep is applied to the value of m5, evaluated once.)
startTour(m) ==
  LET m1 == IF m.env.soundManager
            THEN startAmbientPurr(playMeow(soundInit(m))) ELSE m
      m2 == loadTourForCurrentPage(m1)
      m3 == [m2 EXCEPT !.state.currentStep = 0, !.state.isActive = TRUE,
                       !.state.hasCompleted = FALSE]
      m4 == setTourActive(m3, TRUE)
      m5 == catShow(m4)
  IN  CHOOSE rendered \in { renderStep(v) : v \in {m5} } : TRUE

restartTour(m) == startTour(m)

(***************************************************************************)
(* Event handlers.                                                         *)
(***************************************************************************)
\* initSoundsOnInteraction: the first click or keydown of a page load.
initSoundsOnInteraction(m) ==
  IF m.soundsInitialized THEN m
  ELSE LET m1 == [m EXCEPT !.soundsInitialized = TRUE]
       IN  IF m1.env.soundManager THEN startAmbientPurr(soundInit(m1)) ELSE m1

Keys == {"Enter", "ArrowRight", " ", "ArrowLeft", "Escape", "Tab"}

\* The tour operation the keydown listener of setupKeyboardNav invokes.
keyCall(m, key) ==
  IF ~m.state.isActive THEN "none"
  ELSE CASE key \in {"Enter", "ArrowRight", " "} -> "nextStep"
         [] key = "ArrowLeft" -> "prevStep"
         [] key = "Escape" -> "skipTour"
         [] OTHER -> "none"

Targets == {"#tour-next", "#tour-prev", "#tour-skip", "#cat-guide", "#restart-tour", "body"}
\* The click listener without the test that no tour is active on the mascot
\* branch.
clickCall_MascotAlways(m, target) ==
  CASE target = "#tour-next" -> "nextStep"
    [] target = "#tour-prev" -> "prevStep"
    [] target = "#tour-skip" -> "skipTour"
    [] target = "#cat-guide" -> "catClick"
    [] target = "#restart-tour" -> "restartTour"
    [] OTHER -> "none"

\* The tour operation the click listener of setupButtonControls invokes.
clickCall(m, target) ==
  CASE target = "#tour-next" -> "nextStep"
    [] target = "#tour-prev" -> "prevStep"
    [] target = "#tour-skip" -> "skipTour"
    [] target = "#cat-guide" /\ ~m.state.isActive -> "catClick"
    [] target = "#restart-tour" -> "restartTour"
    [] OTHER -> "none"

Commands == {"start", "restart", "skip", "next", "prev"}

\* window.portfolioTour
apiCall(command) ==
  CASE command = "start" -> "startTour"
    [] command = "restart" -> "restartTour"
    [] command = "skip" -> "skipTour"
    [] command = "next" -> "nextStep"
    [] command = "prev" -> "prevStep"

\* Run the tour operation named call.
invoke(m, call) ==
  CASE call = "nextStep" -> nextStep(m)
    [] call = "prevStep" -> prevStep(m)
    [] call = "skipTour" -> skipTour(m)
    [] call = "startTour" -> startTour(m)
    [] call = "restartTour" -> restartTour(m)
    [] call = "catClick" ->
         restartTour(IF m.env.soundManager THEN playPurr(soundInit(m)) ELSE m)
    [] OTHER -> m

(***************************************************************************)
(* Page load and initTour.                                                 *)
(***************************************************************************)
\* A fresh document at path with the given query: only localStorage (and
\* the browser) survive; initTour loads the script and defers the rest.
loadPage(m, path, query) ==
  loadTourForCurrentPage(
    [ pathname |-> path, search |-> query, localStorage |-> m.localStorage,
      env |-> m.env, state |-> InitialTourState, tourSteps |-> <<>>,
      reveals |-> NoReveals, phase |-> "loading", startTimer |-> "none",
      navTo |-> NoPath, catGuide |-> InitialCatGuide,
      tourSpotlight |-> InitialSpotlight, speechBubble |-> InitialBubble,
      sound |-> InitialSound, soundsInitialized |-> FALSE,
      voice |-> InitialVoice ])

\* initTour that auto-starts on the home page whether or not the tour was
\* completed before.
settle_IgnoresCompletion(m) ==
  LET m1 == [m EXCEPT !.phase = "settled"]
  IN  IF isTourActive(m1) THEN [m1 EXCEPT !.startTimer = "resume"]
      ELSE IF shouldStartFromUrl(m1)
      THEN [clearTourParam(m1) EXCEPT !.startTimer = "url"]
      ELSE IF isHomePage(m1)
      THEN [m1 EXCEPT !.startTimer = "home"]
      ELSE catShow(m1)

\* initTour that resumes only on a page where the tour was not completed.
settle_ResumeUnlessCompleted(m) ==
  LET m1 == [m EXCEPT !.phase = "settled"]
  IN  IF isTourActive(m1) /\ ~hasCompletedTour(m1)
      THEN [m1 EXCEPT !.startTimer = "resume"]
      ELSE IF shouldStartFromUrl(m1)
      THEN [clearTourParam(m1) EXCEPT !.startTimer = "url"]
      ELSE IF isHomePage(m1) /\ ~hasCompletedTour(m1)
      THEN [m1 EXCEPT !.startTimer = "home"]
      ELSE catShow(m1)

\* The callback of initTour's setTimeout(..., 100): listeners are installed
\* and the auto-start policy is decided.
settle(m) ==
  LET m1 == [m EXCEPT !.phase = "settled"]
  IN  IF isTourActive(m1) THEN [m1 EXCEPT !.startTimer = "resume"]
      ELSE IF shouldStartFromUrl(m1)
      THEN [clearTourParam(m1) EXCEPT !.startTimer = "url"]
      ELSE IF isHomePage(m1) /\ ~hasCompletedTour(m1)
      THEN [m1 EXCEPT !.startTimer = "home"]
      ELSE catShow(m1)

\* The callback of the deferred start (500 ms, or 1000 ms on a first visit).
autoStart(m) ==
  LET m1 == [m EXCEPT !.startTimer = "none"]
      m2 == IF m.startTimer = "resume" /\ m1.env.soundManager
            THEN startAmbientPurr(playMeow(soundInit(m1))) ELSE m1
  IN  CHOOSE started \in { startTour(v) : v \in {m2} } : TRUE

\* A typeMessage promise resolves and renderStep resumes after its await:
\* the current reveal has shown the whole text (which = "cur"), or a
\* superseded one ends (which = "old").
revealResolved(m, which) ==
  LET rest == IF which = "cur"
              THEN [m EXCEPT !.speechBubble.full = TRUE, !.reveals.cur = FALSE]
              ELSE [m EXCEPT !.reveals.old = @ - 1]
  IN  afterReveal(rest)

(***************************************************************************)
(* The specification.                                                      *)
(***************************************************************************)
\* Paths a visitor may load: the registered pages, the home page under its
\* file name, a page with a trailing slash, and a page with no script.
Paths ==
  { pageOrder[i] : i \in 1..Len(pageOrder) }
  \cup { INDEX_HTML, <<"/", "about", "/">>, <<"/", "blog", "/", "welcome">> }

\* Queries of a loaded URL: none, or the start-tour marker beside another
\* parameter.
Queries == { {}, {TOUR_PARAM, "ref"} }

\* Browsers of the tour specification: localStorage may be unavailable;
\* the sound manager is mounted and Web Audio is supported.
TourEnvs ==
  [storage : BOOLEAN, audio : {TRUE}, soundManager : {TRUE}, speech : {TRUE}]

\* localStorage of a first visit.  No code of the site writes the resume
\* step, but the key is read and removed: it may hold a value left behind.
FirstVisitStorage ==
  { (STORAGE_KEY :> NULL) @@ (TOUR_ACTIVE_KEY :> NULL) @@ (TOUR_STEP_KEY :> step) :
      step \in {NULL, "2"} }

\* The machine an event handler starts from: the log of the last event's
\* sound calls is cleared.
Begin ==
  [Machine EXCEPT !.sound.calls = {}, !.sound.out = {},
                  !.voice.out = {}, !.voice.said = {}]

\* What the history keeps of the machine before an event; untouched tells
\* whether the event left the presentation collaborators as they were, and
\* initFailed whether init() has failed on this page, this event included.
Snapshot(m) ==
  [ state |-> m.state, localStorage |-> m.localStorage, search |-> m.search,
    startTimer |-> m.startTimer, untouched |-> TRUE, initFailed |-> FALSE,
    sound |-> [m.sound EXCEPT !.calls = {}, !.out = {}],
    voice |-> [m.voice EXCEPT !.out = {}, !.said = {}] ]

\* The event that produced m2 from m ran init() and new AudioContext()
\* threw: init was called, or enabled went false without setEnabled(false),
\* in a browser without Web Audio.
InitFailedIn(m, m2, event) ==
  /\ ~m.env.audio
  /\ \/ event = "init"
     \/ m.sound.isEnabled /\ ~m2.sound.isEnabled /\ event # "setEnabled(false)"

\* The event that produced m2 from m called no method of the presentation
\* collaborators (mascot, overlay, bubble): they are as they were.
SamePresentation(m, m2) ==
  /\ m2.catGuide = m.catGuide
  /\ m2.tourSpotlight = m.tourSpotlight
  /\ m2.speechBubble = m.speechBubble
  /\ m2.reveals = m.reveals

\* The variables take the machine m2 an event produced.  The history names
\* the event by the tour operation it invoked ("nextStep", "prevStep",
\* "skipTour", "startTour", "restartTour", "catClick"), or by its kind when
\* it invoked none.  m2 is evaluated once.
Apply(m2, event) ==
  \E n \in {m2} :
    /\ Outstanding(n.reveals) <= MaxReveals
    /\ Cardinality(n.sound.timers) <= MaxTimers
    /\ pathname' = n.pathname
    /\ search' = n.search
    /\ localStorage' = n.localStorage
    /\ env' = n.env
    /\ state' = n.state
    /\ tourSteps' = n.tourSteps
    /\ reveals' = n.reveals
    /\ phase' = n.phase
    /\ startTimer' = n.startTimer
    /\ navTo' = n.navTo
    /\ catGuide' = n.catGuide
    /\ tourSpotlight' = n.tourSpotlight
    /\ speechBubble' = n.speechBubble
    /\ sound' = n.sound
    /\ soundsInitialized' = n.soundsInitialized
    /\ voice' = n.voice
    /\ op' = event
    /\ pre' = [Snapshot(Machine) EXCEPT
                 !.untouched = SamePresentation(Machine, n),
                 !.initFailed = IF event \in {"visit", "navigate"} THEN FALSE
                                ELSE pre.initFailed \/ InitFailedIn(Machine, n, event)]

InitWith(envs, paths) ==
  \E e \in envs, path \in paths, query \in Queries, stored \in FirstVisitStorage :
    LET m == loadPage([localStorage |-> stored, env |-> e], path, query)
    IN  /\ pathname = m.pathname
        /\ search = m.search
        /\ localStorage = m.localStorage
        /\ env = m.env
        /\ state = m.state
        /\ tourSteps = m.tourSteps
        /\ reveals = m.reveals
        /\ phase = m.phase
        /\ startTimer = m.startTimer
        /\ navTo = m.navTo
        /\ catGuide = m.catGuide
        /\ tourSpotlight = m.tourSpotlight
        /\ speechBubble = m.speechBubble
        /\ sound = m.sound
        /\ soundsInitialized = m.soundsInitialized
        /\ voice = m.voice
        /\ op = "visit"
        /\ pre = Snapshot(m)

\* A first visit: nothing is stored yet.
Init == InitWith(TourEnvs, Paths)

\* The visitor opens a page of the site (a link, the address bar, reload).
Visit ==
  \E path \in Paths, query \in Queries :
    Apply(loadPage(Begin, path, query), "visit")

\* The navigation nextStep requested through location.href commits.
Navigate ==
  /\ navTo # NoPath
  /\ Apply(loadPage(Begin, navTo, {}), "navigate")

\* Once location.href has been assigned the document is on its way out:
\* it handles no further event.
Live == navTo = NoPath

Settle ==
  /\ Live
  /\ phase = "loading"
  /\ Apply(settle(Begin), "settle")

AutoStart ==
  /\ Live
  /\ startTimer # "none"
  /\ Apply(autoStart(Begin), "autostart")

\* A key goes down: the first-interaction listener, then (once installed)
\* the tour's keydown listener.
KeyDown ==
  \E key \in Keys :
    Live /\
    LET m1 == initSoundsOnInteraction(Begin)
        call == IF phase = "settled" THEN keyCall(m1, key) ELSE "none"
    IN  Apply(invoke(m1, call), IF call = "none" THEN "input" ELSE call)

Click ==
  \E target \in Targets :
    Live /\
    LET m1 == initSoundsOnInteraction(Begin)
        call == IF phase = "settled" THEN clickCall(m1, target) ELSE "none"
    IN  Apply(invoke(m1, call), IF call = "none" THEN "input" ELSE call)

\* A call through window.portfolioTour.
Api ==
  \E command \in Commands :
    Live /\ Apply(invoke(Begin, apiCall(command)), apiCall(command))

RevealResolved ==
  \E which \in {"cur", "old"} :
    /\ Live
    /\ IF which = "cur" THEN reveals.cur ELSE reveals.old > 0
    /\ Apply(revealResolved(Begin, which), "resolve")

PurrTimer ==
  \E t \in sound.timers :
    Live /\ Apply(playRandomPurr(Begin, t), "purr")

\* The visitor's keyboard and mouse, the timers and promises of the page,
\* and page loads.
Next ==
  \/ Visit
  \/ Navigate
  \/ Settle
  \/ AutoStart
  \/ KeyDown
  \/ Click
  \/ RevealResolved

Spec == Init /\ [][Next]_vars

\* The same with other scripts of the page calling window.portfolioTour.
NextApi ==
  \/ Next
  \/ Api

SpecApi == Init /\ [][NextApi]_vars

(***************************************************************************)
(* The audio specification: the tour on the blog page, in browsers with    *)
(* and without Web Audio and with and without the sound manager mounted,   *)
(* with the ambient timer firing and the sound manager's methods called    *)
(* from outside the tour.                                                  *)
(***************************************************************************)
AudioPaths == { <<"/", "blog">> }

AudioEnvs ==
  [storage : {TRUE}, audio : BOOLEAN, soundManager : BOOLEAN, speech : {TRUE}]

InitAudio == InitWith(AudioEnvs, AudioPaths)

VisitAudio ==
  \E path \in AudioPaths, query \in Queries :
    Apply(loadPage(Begin, path, query), "visit")

SoundApi ==
  \E call \in SoundCalls :
    /\ Live
    /\ env.soundManager
    /\ Apply(soundCall(Begin, call), call)

NextAudio ==
  \/ VisitAudio
  \/ Settle
  \/ AutoStart
  \/ KeyDown
  \/ Click
  \/ RevealResolved
  \/ PurrTimer
  \/ SoundApi

SpecAudio == InitAudio /\ [][NextAudio]_vars

(***************************************************************************)
(* The narration specification: the sound manager of scripts/tour.ts on    *)
(* one page, in browsers with and without Web Audio and speech synthesis,  *)
(* its methods called by the page, its ambient timer firing and the        *)
(* synthesiser finishing what it speaks.                                   *)
(***************************************************************************)
\* Messages asked to be spoken: plain, and with markdown and runs of space.
Messages ==
  { <<"Meow">>,
    <<" ", "*", "Hi", "*", " ", "\n", "there", "~", " ">> }

\* Volumes asked for, in tenths: below the range, inside it, above it.
Volumes == {-3, 8, 12}

VoiceEnvs ==
  [storage : {TRUE}, audio : BOOLEAN, soundManager : {TRUE}, speech : BOOLEAN]

InitVoice == InitWith(VoiceEnvs, AudioPaths)

VisitVoice == Apply(loadPage(Begin, pathname, {}), "visit")

VoiceApi ==
  \E call \in VoiceCalls, message \in Messages, volume \in Volumes :
    Apply(voiceCall(Begin, call, message, volume), call)

VoiceTimer ==
  \E t \in voice.timers :
    Apply(voicePlayRandomPurr(Begin, t), "purr")

\* The synthesiser reaches the end of the utterance it speaks.
UtteranceEnds ==
  /\ voice.speaking # NoUtterance
  /\ Apply([Begin EXCEPT !.voice.speaking = NoUtterance], "end")

NextVoice ==
  \/ VisitVoice
  \/ VoiceApi
  \/ VoiceTimer
  \/ UtteranceEnds

SpecVoice == InitVoice /\ [][NextVoice]_vars

(***************************************************************************)
(* The page specification: getCurrentPage and loadTourForCurrentPage on    *)
(* every pathname of up to MaxPathLen pieces, trailing and doubled slashes *)
(* included.                                                               *)
(***************************************************************************)
MaxPathLen == 4

PathPieces == {"/", "about", "blog"}

\* location.pathname always begins with a slash.
PathInputs ==
  UNION { { p \in [1..n -> PathPieces] : p[1] = "/" } : n \in 1..MaxPathLen }

InitPages == InitWith(TourEnvs, PathInputs)

VisitPage ==
  \E path \in PathInputs, query \in Queries :
    Apply(loadPage(Begin, path, query), "visit")

NextPages ==
  \/ VisitPage
  \/ Settle
  \/ AutoStart

SpecPages == InitPages /\ [][NextPages]_vars

(***************************************************************************)
(* The chain specification: a first visit to the home page by a visitor    *)
(* who does nothing but advance.  Timers fire, promises resolve and        *)
(* navigations commit eventually (the browser's event loop), and the       *)
(* visitor keeps pressing the key.                                         *)
(***************************************************************************)
InitChain == InitWith(TourEnvs, {HOME_PATH})

\* The visitor presses ArrowRight.
Advance ==
  /\ Live
  /\ LET m1 == initSoundsOnInteraction(Begin)
         call == IF phase = "settled" THEN keyCall(m1, "ArrowRight") ELSE "none"
     IN  Apply(invoke(m1, call), IF call = "none" THEN "input" ELSE call)

NextChain ==
  \/ Settle
  \/ AutoStart
  \/ Advance
  \/ RevealResolved
  \/ PurrTimer
  \/ Navigate

\* The browser runs every timer, promise continuation and navigation that
\* is due, and the visitor keeps pressing the key.
SpecChain ==
  /\ InitChain
  /\ [][NextChain]_vars
  /\ WF_vars(Settle)
  /\ WF_vars(AutoStart)
  /\ WF_vars(RevealResolved)
  /\ WF_vars(Navigate)
  /\ WF_vars(Advance)

(***************************************************************************)
(* The volume specification: the sound manager of part_001 alone, its      *)
(* methods called from outside with setVolume among them.                  *)
(***************************************************************************)
\* Volumes asked for: below the range, inside it, above it, and not a
\* number.
VolumeInputs == Volumes \cup {NaN}

InitVolume == InitWith(AudioEnvs, AudioPaths)

SetVolume ==
  \E volume \in VolumeInputs :
    /\ Live
    /\ env.soundManager
    /\ Apply(setVolume(Begin, volume), "setVolume")

NextVolume ==
  \/ VisitAudio
  \/ SoundApi
  \/ SetVolume
  \/ PurrTimer

SpecVolume == InitVolume /\ [][NextVolume]_vars

(***************************************************************************)
(* Properties.  The history variables name the last event (op) and keep a  *)
(* snapshot of the machine before it (pre).                                *)
(***************************************************************************)
\* The events that run startTour.
StartOps == {"startTour", "restartTour", "catClick", "autostart"}

\* The last event called nextStep while the tour was Active and not Typing
\* at the last index of the loaded script.
AdvancedAtLast ==
  /\ op = "nextStep"
  /\ pre.state.isActive
  /\ ~pre.state.isTyping
  /\ pre.state.currentStep = Len(tourSteps) - 1

LastStep == tourSteps[Len(tourSteps)]

\* C1: after start() - from Idle, Active or Typing, at any step index - the
\* step index is 0, the tour is active and (storage working) the
\* cross-page-active flag is persisted.
C1_StartResets ==
  op \in StartOps =>
    /\ state.currentStep = 0
    /\ state.isActive
    /\ (env.storage => localStorage[TOUR_ACTIVE_KEY] = "true")

\* start(); advance(); advance(); start(): a restart from index 2.
C1_Witness ==
  /\ op = "restartTour"
  /\ pre.state.isActive
  /\ pre.state.currentStep = 2
  /\ state.currentStep = 0
  /\ localStorage[TOUR_ACTIVE_KEY] = "true"

\* C2: advance() while Typing leaves currentStep unchanged; it clears Typing
\* and has the speech bubble display the full message of the step at
\* currentStep; the tour stays active, nothing is persisted, no navigation.
C2_AdvanceWhileTypingSkips ==
  (op = "nextStep" /\ pre.state.isActive /\ pre.state.isTyping) =>
    /\ state.currentStep = pre.state.currentStep
    /\ ~state.isTyping
    /\ state.isActive
    /\ state.hasCompleted = pre.state.hasCompleted
    /\ speechBubble.message = tourSteps[state.currentStep + 1].message
    /\ speechBubble.full
    /\ ~reveals.cur
    /\ localStorage = pre.localStorage
    /\ navTo = NoPath

C2_Witness ==
  /\ op = "nextStep"
  /\ pre.state.isActive
  /\ pre.state.isTyping
  /\ pre.state.currentStep = 1
  /\ state.currentStep = 1
  /\ speechBubble.full

\* C3: advance() while Active, not Typing, at the last index of a script
\* whose last step declares navigateTo persists the cross-page-active flag
\* and navigates to that target; it does not complete: the tour stays
\* active and the completion flag is unchanged.
C3_AdvanceAtLastNavigates ==
  (AdvancedAtLast /\ LastStep.navigateTo # NoPath) =>
    /\ navTo = LastStep.navigateTo
    /\ (env.storage => localStorage[TOUR_ACTIVE_KEY] = "true")
    /\ localStorage[STORAGE_KEY] = pre.localStorage[STORAGE_KEY]
    /\ state.isActive
    /\ state.hasCompleted = pre.state.hasCompleted
    /\ state.currentStep = pre.state.currentStep

C3_Witness ==
  /\ AdvancedAtLast
  /\ pathname = <<"/">>
  /\ navTo = <<"/", "about">>
  /\ localStorage[TOUR_ACTIVE_KEY] = "true"
  /\ localStorage[STORAGE_KEY] = NULL

\* C4: advance() while Active, not Typing, at the last index of a script
\* whose last step has no navigateTo ends the tour: isActive is false, the
\* completion flag is persisted as true and the cross-page-active flag is
\* cleared (storage working).
C4_AdvanceAtLastCompletes ==
  (AdvancedAtLast /\ LastStep.navigateTo = NoPath) =>
    /\ ~state.isActive
    /\ (env.storage => localStorage[STORAGE_KEY] = "true")
    /\ localStorage[TOUR_ACTIVE_KEY] = NULL
    /\ navTo = NoPath

C4_Witness ==
  /\ AdvancedAtLast
  /\ pathname = <<"/", "blog">>
  /\ pre.localStorage[STORAGE_KEY] = NULL
  /\ pre.localStorage[TOUR_ACTIVE_KEY] = "true"
  /\ localStorage[STORAGE_KEY] = "true"
  /\ localStorage[TOUR_ACTIVE_KEY] = NULL
  /\ ~state.isActive

\* The last event ran completeTour: a skip, or an advance past a final step
\* that declares no navigateTo.
Completed ==
  \/ op = "skipTour"
  \/ AdvancedAtLast /\ LastStep.navigateTo = NoPath

\* The flags as init reads them.
ActiveFlagSet == env.storage /\ localStorage[TOUR_ACTIVE_KEY] = "true"

CompletionFlagSet == env.storage /\ localStorage[STORAGE_KEY] = "true"

OnHomePage == pathname \in { <<"/">>, <<"/", "index.html">> }

\* The cross-page-active flag is set only by a start or by an advance.
ActiveFlagSetOnlyByStartOrAdvance ==
  (pre.localStorage[TOUR_ACTIVE_KEY] = NULL /\ localStorage[TOUR_ACTIVE_KEY] # NULL)
    => op \in StartOps \cup {"nextStep"}

\* A page load keeps what is stored.
LoadKeepsStorage ==
  op \in {"visit", "navigate"} => localStorage = pre.localStorage

\* C5: skip(), on any page and at any step, clears the cross-page-active
\* flag; the flag stays cleared across page loads until a start or an
\* advance sets it again; and a page load that finds it cleared, with no
\* start-tour marker and not as a first-ever home visit, schedules no
\* start: the tour does not auto-resume.
C5_SkipPreventsResume ==
  /\ (op = "skipTour" => localStorage[TOUR_ACTIVE_KEY] = NULL /\ ~state.isActive)
  /\ ActiveFlagSetOnlyByStartOrAdvance
  /\ LoadKeepsStorage
  /\ (( /\ op = "settle"
        /\ localStorage[TOUR_ACTIVE_KEY] = NULL
        /\ TOUR_PARAM \notin pre.search
        /\ ~(OnHomePage /\ ~CompletionFlagSet) )
       => startTimer = "none" /\ ~state.isActive)

\* A skip in the middle of an active tour whose flag was set.
C5_Witness ==
  /\ op = "skipTour"
  /\ pre.state.isActive
  /\ pre.state.currentStep = 1
  /\ pre.localStorage[TOUR_ACTIVE_KEY] = "true"
  /\ localStorage[TOUR_ACTIVE_KEY] = NULL
  /\ pathname = <<"/", "about">>

\* C6: complete(), reached by skip or by advancing past a final step, from
\* any step, leaves isActive false, hasCompleted true, the completion flag
\* persisted (storage working), the resume-step key and the
\* cross-page-active flag cleared, overlay and bubble hidden, the mascot
\* idle, and the success cue requested.
C6_CompleteEffects ==
  Completed =>
    /\ ~state.isActive
    /\ state.hasCompleted
    /\ (env.storage => localStorage[STORAGE_KEY] = "true")
    /\ (env.storage => localStorage[TOUR_STEP_KEY] = NULL)
    /\ localStorage[TOUR_ACTIVE_KEY] = NULL
    /\ ~tourSpotlight.visible
    /\ ~speechBubble.visible
    /\ catGuide.animation = "idle"
    /\ "success" \in sound.calls

\* Escape at step 2 of the 6 steps of the home script, with a resume step
\* left in storage.
C6_Witness ==
  /\ op = "skipTour"
  /\ pre.state.isActive
  /\ pre.state.currentStep = 2
  /\ Len(tourSteps) = 6
  /\ pre.localStorage[TOUR_STEP_KEY] = "2"
  /\ pre.localStorage[STORAGE_KEY] = NULL
  /\ localStorage[STORAGE_KEY] = "true"
  /\ localStorage[TOUR_STEP_KEY] = NULL
  /\ ~speechBubble.visible

\* C7: after complete() hasCompleted is true and the completion flag is
\* stored; no event clears the flag; and a load of the home page that finds
\* it set, with the cross-page-active flag unset (no start in between) and
\* no start-tour marker, schedules no start.
C7_CompletedHomeDoesNotAutoStart ==
  /\ (Completed => state.hasCompleted /\ (env.storage => localStorage[STORAGE_KEY] = "true"))
  /\ (pre.localStorage[STORAGE_KEY] = "true" => localStorage[STORAGE_KEY] = "true")
  /\ ActiveFlagSetOnlyByStartOrAdvance
  /\ (( /\ op = "settle"
        /\ OnHomePage
        /\ CompletionFlagSet
        /\ ~ActiveFlagSet
        /\ TOUR_PARAM \notin pre.search )
       => /\ startTimer = "none"
          /\ ~state.isActive)

C7_Witness ==
  /\ op = "settle"
  /\ pathname = <<"/">>
  /\ localStorage[STORAGE_KEY] = "true"
  /\ localStorage[TOUR_ACTIVE_KEY] = NULL
  /\ search = {}
  /\ pre.search = {}
  /\ startTimer = "none"
  /\ ~state.isActive

\* C8: a page load that finds the cross-page-active flag set schedules the
\* resume whatever the completion flag and the page are; the scheduled
\* start stays pending until it fires or the page is left; when it fires
\* the tour is active at step 0 of the script of the loaded page; and the
\* page an advance navigates to is loaded with the flag set.
C8_ActiveFlagAutoResumes ==
  /\ ((op = "settle" /\ ActiveFlagSet) => startTimer = "resume")
  /\ ((pre.startTimer = "resume" /\ op \notin {"autostart", "visit", "navigate"})
        => startTimer = "resume")
  /\ (op = "autostart" =>
        /\ state.isActive
        /\ state.currentStep = 0
        /\ tourSteps = getTourStepsForPage(getCurrentPage(Machine))
        /\ ~state.hasCompleted)
  /\ (op = "navigate" => phase = "loading" /\ (env.storage => ActiveFlagSet))

\* The resume fires on a page that is not the home page, with the
\* completion flag set.
C8_Witness ==
  /\ op = "autostart"
  /\ pre.startTimer = "resume"
  /\ pathname = <<"/", "about">>
  /\ localStorage[STORAGE_KEY] = "true"
  /\ tourSteps = AboutTour
  /\ state.currentStep = 0
  /\ state.isActive

\* C9: on a page load with the cross-page-active flag unset and no
\* start-tour marker, init schedules the start if and only if the page is
\* the home page and the completion flag is not set; otherwise the runtime
\* state is untouched (Idle), the mascot is shown, and nothing is
\* scheduled; a start is scheduled by init alone.
C9_AutoStartOnlyFirstHomeVisit ==
  /\ ((op = "settle" /\ ~ActiveFlagSet /\ TOUR_PARAM \notin pre.search) =>
        /\ startTimer \in {"home", "none"}
        /\ (startTimer = "home" <=> (OnHomePage /\ ~CompletionFlagSet))
        /\ state = pre.state
        /\ ~state.isActive
        /\ (startTimer = "none" => catGuide.visible /\ catGuide.animation = "idle"))
  /\ ((pre.startTimer = "none" /\ startTimer # "none") => op = "settle")

\* A page other than the home page on a first visit: no start.
C9_Witness ==
  /\ op = "settle"
  /\ pathname = <<"/", "skills">>
  /\ localStorage[STORAGE_KEY] = NULL
  /\ localStorage[TOUR_ACTIVE_KEY] = NULL
  /\ pre.search = {}
  /\ startTimer = "none"
  /\ catGuide.visible

\* C10 as claimed: every page load whose URL carries the start-tour marker,
\* whatever the persisted flags, schedules the start and has the marker
\* removed from the URL.
C10_MarkerAlwaysStripped ==
  (op = "settle" /\ TOUR_PARAM \in pre.search) =>
    /\ startTimer # "none"
    /\ TOUR_PARAM \notin search

\* C10 amended: a page load whose URL carries the marker always schedules
\* a start; with the cross-page-active flag unset the marker is stripped
\* (the URL keeps its pathname only, the page is not reloaded) before the
\* tour starts; with the flag set the resume is scheduled and the URL is
\* left as it is.
C10_MarkerStrippedUnlessResuming ==
  /\ ((op = "settle" /\ TOUR_PARAM \in pre.search) =>
        /\ startTimer = (IF ActiveFlagSet THEN "resume" ELSE "url")
        /\ search = (IF ActiveFlagSet THEN pre.search ELSE {})
        /\ state = pre.state
        /\ phase = "settled")
  /\ (op = "autostart" => search = pre.search /\ state.isActive)
  /\ (startTimer = "url" => TOUR_PARAM \notin search)
  /\ ((op = "autostart" /\ pre.startTimer = "url") => search = {})

\* The tour starts from the marker with the completion flag set.
C10_Witness ==
  /\ op = "autostart"
  /\ pre.startTimer = "url"
  /\ search = {}
  /\ localStorage[STORAGE_KEY] = "true"
  /\ state.isActive

\* The step at the current index has been rendered: the mascot plays its
\* animation, the bubble counts it and reveals its message.
Rendered ==
  LET step == tourSteps[state.currentStep + 1]
  IN  /\ catGuide.animation = step.animation
      /\ tourSpotlight.visible
      /\ tourSpotlight.welcomeMode = step.welcomeMode
      /\ speechBubble.visible
      /\ speechBubble.current = state.currentStep + 1
      /\ speechBubble.total = Len(tourSteps)
      /\ speechBubble.message = step.message
      /\ state.isTyping
      /\ reveals.cur

\* C11: retreat() with the tour active and the index above 0 decrements the
\* index by exactly one and renders that step; at index 0, or with the tour
\* not active, the index, isActive, the persisted flags and the
\* presentation collaborators are as they were.
C11_RetreatDecrementsOrNothing ==
  op = "prevStep" =>
    /\ localStorage = pre.localStorage
    /\ navTo = NoPath
    /\ state.isActive = pre.state.isActive
    /\ state.hasCompleted = pre.state.hasCompleted
    /\ IF pre.state.isActive /\ pre.state.currentStep > 0
       THEN state.currentStep = pre.state.currentStep - 1 /\ Rendered
       ELSE state = pre.state /\ pre.untouched

\* A retreat from step 2 to step 1.
C11_Witness ==
  /\ op = "prevStep"
  /\ pre.state.isActive
  /\ pre.state.currentStep = 2
  /\ state.currentStep = 1
  /\ speechBubble.current = 2

\* C12: in every reachable state the step index is at least 0 and below
\* the length of the script loaded for the current page.
C12_StepIndexInRange ==
  /\ tourSteps = getTourStepsForPage(getCurrentPage(Machine))
  /\ state.currentStep \in 0..(Len(tourSteps) - 1)

\* The last step of a three-step script, reached by advancing.
C12_Witness ==
  /\ op = "nextStep"
  /\ pathname = <<"/", "skills">>
  /\ Len(tourSteps) = 3
  /\ pre.state.currentStep = 1
  /\ state.currentStep = 2

\* The page ids a script is asked for: the registered pages and every path
\* a visitor may load, as it is and normalised.
PageIds ==
  DOMAIN pageTours \cup Paths \cup { getCurrentPage([pathname |-> p]) : p \in Paths }

RegisteredPages == { pageOrder[i] : i \in 1..Len(pageOrder) }

\* A script is non-empty and ends the tour or continues on a registered page.
WellFormed(script) ==
  /\ Len(script) > 0
  /\ \/ script[Len(script)].navigateTo = NoPath
     \/ script[Len(script)].navigateTo \in DOMAIN pageTours

\* C13: for every page id the script is non-empty and its last step either
\* has no navigateTo or names a page with its own registered script; the
\* script loaded in any reachable state is such a script, and the page an
\* advance navigates to loads the script registered under its own id.
C13_ScriptsWellFormed ==
  /\ \A page \in PageIds : WellFormed(getTourStepsForPage(page))
  /\ WellFormed(tourSteps)
  /\ (op = "navigate" =>
        /\ pathname \in DOMAIN pageTours
        /\ tourSteps = pageTours[pathname]
        /\ \A i \in 1..Len(tourSteps) : tourSteps[i].page = pathname)

\* The continuation of the contact script has loaded the blog script, the
\* one that ends the tour.
C13_Witness ==
  /\ op = "navigate"
  /\ pathname = <<"/", "blog">>
  /\ tourSteps = BlogTour
  /\ tourSteps[Len(tourSteps)].navigateTo = NoPath

\* C14: the script for a page id is the one registered under exactly that
\* id (its steps carry the id as their page), and the home script for an
\* id with no registered script; the script a page load or a start leaves
\* loaded is the script for the normalised pathname.
C14_ScriptForPageOrHome ==
  /\ \A page \in PageIds :
       LET script == getTourStepsForPage(page)
       IN  /\ page \in RegisteredPages =>
                \A i \in 1..Len(script) : script[i].page = page
           /\ page \notin RegisteredPages => script = HomeTour
  /\ LET page == getCurrentPage(Machine)
     IN  /\ Len(tourSteps) > 0
         /\ \A i \in 1..Len(tourSteps) :
              tourSteps[i].page = (IF page \in RegisteredPages THEN page ELSE <<"/">>)

\* The tour runs on a blog post, which has no script, with the home script.
C14_Witness ==
  /\ pathname = <<"/", "blog", "/", "welcome">>
  /\ state.isActive
  /\ tourSteps = HomeTour
  /\ state.currentStep = 1

\* advance() was called while Typing at the last index of the script.
AdvancedTypingAtLast ==
  /\ op = "nextStep"
  /\ pre.state.isActive
  /\ pre.state.isTyping
  /\ pre.state.currentStep = Len(tourSteps) - 1

\* C15: advance() while Typing at the last index neither navigates nor
\* completes: isActive stays true, hasCompleted, the completion flag and
\* the cross-page-active flag are as before, the index is unchanged and
\* only Typing is cleared, whether or not the step declares navigateTo.
C15_TypingSkipAtLastStep ==
  AdvancedTypingAtLast =>
    /\ navTo = NoPath
    /\ state.isActive
    /\ state.hasCompleted = pre.state.hasCompleted
    /\ state.currentStep = pre.state.currentStep
    /\ ~state.isTyping
    /\ localStorage[STORAGE_KEY] = pre.localStorage[STORAGE_KEY]
    /\ localStorage[TOUR_ACTIVE_KEY] = pre.localStorage[TOUR_ACTIVE_KEY]

\* The last step of the blog script, which has no navigateTo, still being
\* revealed when the visitor advances.
C15_Witness ==
  /\ AdvancedTypingAtLast
  /\ pathname = <<"/", "blog">>
  /\ LastStep.navigateTo = NoPath
  /\ state.isActive
  /\ localStorage[STORAGE_KEY] = NULL

\* C16: advance() while active, not Typing and at an index i below the
\* last sets the index to exactly i+1 and renders that step; the persisted
\* flags are as before, nothing navigates and the tour stays active.
C16_AdvanceByOne ==
  ( /\ op = "nextStep"
    /\ pre.state.isActive
    /\ ~pre.state.isTyping
    /\ pre.state.currentStep < Len(tourSteps) - 1 )
  => /\ state.currentStep = pre.state.currentStep + 1
     /\ Rendered
     /\ localStorage = pre.localStorage
     /\ navTo = NoPath
     /\ state.isActive
     /\ state.hasCompleted = pre.state.hasCompleted

\* From step 0 to step 1 of the six steps of the home script.
C16_Witness ==
  /\ op = "nextStep"
  /\ pre.state.isActive
  /\ ~pre.state.isTyping
  /\ pre.state.currentStep = 0
  /\ state.currentStep = 1
  /\ Len(tourSteps) = 6
  /\ speechBubble.message = HomeTour[2].message

\* The sound manager without the log of the last event.
Settings(snd) == [snd EXCEPT !.calls = {}, !.out = {}]

\* C17: at most one ambient purr timer is pending in every reachable
\* state, and it is the one the handle names; startAmbientPurr() with a
\* chain already scheduled changes nothing.
C17_AtMostOneAmbientTimer ==
  /\ Cardinality(sound.timers) <= 1
  /\ sound.timers = (IF sound.purrInterval = 0 THEN {} ELSE {sound.purrInterval})
  /\ ((op = "startAmbientPurr" /\ pre.sound.purrInterval # 0)
        => Settings(sound) = pre.sound)

\* startTour runs, from the restart control, with the chain of the first
\* interaction already scheduled.
C17_Witness ==
  /\ op = "restartTour"
  /\ pre.sound.purrInterval # 0
  /\ Cardinality(sound.timers) = 1
  /\ state.isActive

C19_SilentWhenDisabledOrUninitialised ==
  /\ (sound.out # {} => sound.isEnabled /\ sound.audioContext)
  /\ (~pre.sound.isEnabled => sound.out = {})
  /\ (( /\ op \in {"playTypingSound", "playMeow", "playPurr", "playSuccess"}
        /\ (~pre.sound.isEnabled \/ ~pre.sound.audioContext) )
       => (sound.out = {} /\ Settings(sound) = pre.sound))
  /\ ((op = "purr" /\ (~pre.sound.isEnabled \/ ~pre.sound.audioContext))
       => sound.out = {})

\* The ambient timer, started after audio was disabled, fires with the
\* audio context initialised, and nothing is heard.
C19_Witness ==
  /\ op = "purr"
  /\ ~pre.sound.isEnabled
  /\ env.audio
  /\ sound.audioContext
  /\ sound.out = {}
  /\ sound.purrInterval # 0

\* C20 as claimed: after setEnabled(false), and until audio is enabled
\* again, speakMessage() hands the synthesiser nothing and nothing is being
\* spoken afterwards.  (Where Web Audio is available, enabled is false only
\* through setEnabled(false).)
C20_DisabledSuppressesNarration ==
  (op = "speakMessage" /\ env.audio /\ ~voice.isEnabled)
    => (voice.said = {} /\ voice.speaking = NoUtterance)

\* C21 as claimed: where constructing the audio context fails, init()
\* leaves enabled false and no audio context, and once it has failed, for as
\* long as enabled stays false, a play method, startAmbientPurr() or another
\* init() leaves the sound manager as it was: nothing emitted, nothing
\* scheduled.
C21_NoOpsAfterFailedInit ==
  /\ ((op = "init" /\ ~env.audio)
        => (~sound.isEnabled /\ ~sound.audioContext /\ sound.out = {}))
  /\ (( /\ pre.initFailed
        /\ ~pre.sound.isEnabled
        /\ op \in { "init", "playTypingSound", "playMeow", "playPurr",
                    "playSuccess", "startAmbientPurr" } )
       => (Settings(sound) = pre.sound /\ sound.out = {}))

\* What a handler leaves in the page: the runtime state, the loaded script,
\* the pending timers and navigation, and the presentation.
Runtime(m) ==
  [ state |-> m.state, tourSteps |-> m.tourSteps, reveals |-> m.reveals,
    phase |-> m.phase, startTimer |-> m.startTimer, navTo |-> m.navTo,
    search |-> m.search, catGuide |-> m.catGuide,
    tourSpotlight |-> m.tourSpotlight, speechBubble |-> m.speechBubble ]

\* The same page in a browser whose storage works and holds the given items.
WithStorage(m, items) ==
  [m EXCEPT !.env.storage = TRUE, !.localStorage = items]

EmptyStorage ==
  (STORAGE_KEY :> NULL) @@ (TOUR_ACTIVE_KEY :> NULL) @@ (TOUR_STEP_KEY :> NULL)

StorageContents == [{STORAGE_KEY, TOUR_ACTIVE_KEY, TOUR_STEP_KEY} -> {NULL, "true"}]

\* C22: with storage unavailable the reads answer 'not active' and 'not
\* completed', nothing is ever stored, start, advance, retreat, skip and
\* complete leave the page in exactly the runtime state they leave it in with
\* working storage (whatever that storage holds), and a page load decides as
\* it does on a first visit with empty storage.
C22_StorageUnavailableDegrades ==
  ~env.storage =>
    /\ ~isTourActive(Machine)
    /\ ~hasCompletedTour(Machine)
    /\ localStorage = pre.localStorage
    /\ \A items \in StorageContents :
         /\ Runtime(startTour(Machine)) = Runtime(startTour(WithStorage(Machine, items)))
         /\ Runtime(nextStep(Machine)) = Runtime(nextStep(WithStorage(Machine, items)))
         /\ Runtime(prevStep(Machine)) = Runtime(prevStep(WithStorage(Machine, items)))
         /\ Runtime(skipTour(Machine)) = Runtime(skipTour(WithStorage(Machine, items)))
         /\ Runtime(completeTour(Machine)) = Runtime(completeTour(WithStorage(Machine, items)))
    /\ (phase = "loading" =>
          Runtime(settle(Machine)) = Runtime(settle(WithStorage(Machine, EmptyStorage))))
    /\ (op = "settle" =>
          /\ ~state.isActive /\ ~state.hasCompleted
          /\ startTimer # "resume"
          /\ (startTimer = "none") = (~shouldStartFromUrl(pre) /\ ~OnHomePage))

\* Without storage the last step of the home page has been advanced past and
\* the navigation to the next page is requested.
C22_Witness ==
  /\ ~env.storage
  /\ AdvancedAtLast
  /\ navTo # NoPath

\* C23 as claimed: typing is a sub-state of active; in every reachable state
\* isTyping implies isActive, also after a skip or a completion issued while
\* a message is still being revealed.
C23_TypingImpliesActive == state.isTyping => state.isActive

\* C24 as claimed: at most one message reveal is outstanding at a time,
\* under every interleaving of start, restart, advance, retreat and skip with
\* a reveal in progress.
C24_AtMostOneReveal == Outstanding(reveals) <= 1

\* C25 as claimed: once an advance has requested a page navigation no
\* deferred start and no ambient purr timer is pending; while audio is
\* disabled no ambient purr timer is pending, and none fires.
C25_TimersClearedOnTeardown ==
  /\ (navTo # NoPath => (startTimer = "none" /\ sound.timers = {}))
  /\ (~sound.isEnabled => (sound.timers = {} /\ sound.purrInterval = 0))
  /\ (op = "purr" => pre.sound.isEnabled)

\* The conditions of the sound manager: absent from the page; present and
\* not yet initialised; initialised; disabled by setEnabled(false); failed to
\* initialise.
SoundVariants ==
  { [soundManager |-> FALSE, audio |-> TRUE,  isEnabled |-> TRUE,  audioContext |-> FALSE],
    [soundManager |-> TRUE,  audio |-> TRUE,  isEnabled |-> TRUE,  audioContext |-> FALSE],
    [soundManager |-> TRUE,  audio |-> TRUE,  isEnabled |-> TRUE,  audioContext |-> TRUE],
    [soundManager |-> TRUE,  audio |-> TRUE,  isEnabled |-> FALSE, audioContext |-> TRUE],
    [soundManager |-> TRUE,  audio |-> FALSE, isEnabled |-> FALSE, audioContext |-> FALSE] }

\* The same page with the sound manager in the given condition.
WithSoundManager(m, v) ==
  [m EXCEPT !.env.soundManager = v.soundManager, !.env.audio = v.audio,
            !.sound.isEnabled = v.isEnabled, !.sound.audioContext = v.audioContext]

\* The current page with the sound manager as it is and in each condition.
SoundConditions == {Machine} \cup {WithSoundManager(Machine, v) : v \in SoundVariants}

\* What the tour keeps: the runtime state, the persisted flags, the loaded
\* script, the requested navigation and the reveals in progress.
TourOutcome(m) ==
  [ state |-> m.state, localStorage |-> m.localStorage,
    tourSteps |-> m.tourSteps, navTo |-> m.navTo, reveals |-> m.reveals ]

\* C26: in every reachable state, start, advance, retreat and skip leave the
\* runtime state and the persisted flags the same whatever the condition of
\* the sound manager (present, absent, disabled, failed to initialise), so
\* every sequence of them does.
C26_TourIndependentOfSound ==
  /\ Cardinality({TourOutcome(startTour(m)) : m \in SoundConditions}) = 1
  /\ Cardinality({TourOutcome(nextStep(m)) : m \in SoundConditions}) = 1
  /\ Cardinality({TourOutcome(prevStep(m)) : m \in SoundConditions}) = 1
  /\ Cardinality({TourOutcome(skipTour(m)) : m \in SoundConditions}) = 1

\* With no sound manager on the page the tour has been started and advanced
\* to its second step.
C26_Witness ==
  /\ ~env.soundManager
  /\ op = "nextStep"
  /\ state.isActive
  /\ state.currentStep = 1
  /\ pre.state.currentStep = 0

\* The page after the click listener has handled a click on the mascot.
MascotClicked == invoke(Machine, clickCall(Machine, "#cat-guide"))

\* C27: a click on the mascot with no tour active leaves index 0, the tour
\* active, the cross-page-active flag set and step 0 rendered, the same tour
\* state, persisted flags and presentation as start(); a click on the mascot
\* with the tour active changes nothing of them.
C27_MascotClickStartsWhenIdle ==
  /\ (op = "catClick" =>
        /\ ~pre.state.isActive
        /\ state.currentStep = 0
        /\ state.isActive
        /\ (env.storage => localStorage[TOUR_ACTIVE_KEY] = "true")
        /\ Rendered)
  /\ ((phase = "settled" /\ ~state.isActive) =>
        /\ TourOutcome(MascotClicked) = TourOutcome(startTour(Machine))
        /\ Runtime(MascotClicked) = Runtime(startTour(Machine)))
  /\ ((phase = "settled" /\ state.isActive) =>
        /\ TourOutcome(MascotClicked) = TourOutcome(Machine)
        /\ Runtime(MascotClicked) = Runtime(Machine))

\* The mascot is clicked after the tour was skipped: the tour runs again
\* from step 0.
C27_Witness ==
  /\ op = "catClick"
  /\ pre.state.hasCompleted
  /\ state.isActive
  /\ state.currentStep = 0
  /\ Rendered

\* C28 as claimed: with working storage, once the page has initialised,
\* hasCompleted is true exactly when the persisted completion flag is set.
C28_CompletedBeforeIffFlag ==
  (env.storage /\ phase = "settled")
    => (state.hasCompleted <=> localStorage[STORAGE_KEY] = "true")

\* The page identifier of the current page, and the identifier the same
\* normalisation gives when applied to it again.
PageId == getCurrentPage(Machine)

PageIdAgain == getCurrentPage([Machine EXCEPT !.pathname = PageId])

EndsWithSlash(path) == Len(path) > 0 /\ path[Len(path)] = "/"

\* The three parts of C29 that hold of every pathname: a pathname other than
\* the root that ends with a slash loses exactly that one slash, any other
\* pathname (the root included) is its own identifier, and the script loaded
\* is the script of the identifier, so '/about/' runs the script of '/about'.
StripsOneTrailingSlash ==
  /\ ((EndsWithSlash(pathname) /\ pathname # <<"/">>)
        => PageId = SubSeq(pathname, 1, Len(pathname) - 1))
  /\ ((~EndsWithSlash(pathname) \/ pathname = <<"/">>) => PageId = pathname)
  /\ (pathname = <<"/", "about", "/">> => tourSteps = pageTours[<<"/", "about">>])
  /\ tourSteps = getTourStepsForPage(PageId)

\* C29 as claimed: exactly one trailing slash is stripped except for the
\* root, and normalising an identifier that was already normalised changes
\* nothing.
C29_NormaliseIdempotent ==
  /\ StripsOneTrailingSlash
  /\ PageIdAgain = PageId

\* C29, amended: exactly one trailing slash is stripped except for the root;
\* normalising again changes nothing when the pathname ends with at most one
\* slash, and strips one more slash when it ends with two or more.
C29_StripsOneSlashPerPass ==
  /\ StripsOneTrailingSlash
  /\ IF EndsWithSlash(PageId) /\ PageId # <<"/">>
     THEN /\ Len(pathname) >= 3
          /\ pathname[Len(pathname)] = "/" /\ pathname[Len(pathname) - 1] = "/"
          /\ PageIdAgain = SubSeq(PageId, 1, Len(PageId) - 1)
     ELSE PageIdAgain = PageId

\* '/about//' is loaded: its identifier is '/about/', which has no script of
\* its own and normalises further to '/about'.
C29_Witness ==
  /\ pathname = <<"/", "about", "/", "/">>
  /\ PageId = <<"/", "about", "/">>
  /\ PageIdAgain = <<"/", "about">>
  /\ tourSteps = pageTours[<<"/">>]
  /\ phase = "settled"

\* The page changes only from a page of pageOrder to the page after it.
PageOrderStep ==
  pathname' # pathname =>
    \E i \in 1..(Len(pageOrder) - 1) :
      pathname = pageOrder[i] /\ pathname' = pageOrder[i + 1]

\* The tour has completed on the blog page.
CompletedOnBlog ==
  /\ pathname = <<"/", "blog">>
  /\ state.hasCompleted
  /\ ~state.isActive

\* C30 as claimed: the visitor who only advances goes through the pages in
\* the order of pageOrder, the tour completes nowhere but on '/blog', and it
\* eventually completes there.
C30_AlwaysReachesBlog ==
  /\ [][PageOrderStep]_vars
  /\ [](state.hasCompleted => pathname = <<"/", "blog">>)
  /\ <>CompletedOnBlog

\* C30, amended: the pages come in the order of pageOrder and the tour
\* completes nowhere but on '/blog'; with working storage it eventually
\* completes there; with storage unavailable the visitor ends on '/about'
\* with the tour inactive and advance() doing nothing.
C30_ReachesBlogWithStorage ==
  /\ [][PageOrderStep]_vars
  /\ [](state.hasCompleted => pathname = <<"/", "blog">>)
  /\ (env.storage => <>CompletedOnBlog)
  /\ (~env.storage => <>[](pathname = <<"/", "about">> /\ ~state.isActive))

\* The last advance on '/blog' has completed the tour and persisted the
\* completion flag.
C30_Witness ==
  /\ CompletedOnBlog
  /\ op = "nextStep"
  /\ env.storage
  /\ localStorage[STORAGE_KEY] = "true"
  /\ localStorage[TOUR_ACTIVE_KEY] = NULL

\* C31: with working storage, whenever the tour is active the
\* cross-page-active flag is stored as "true"; the flag goes from unset to
\* set only in a start or in the navigation branch of an advance, and from
\* set to unset only in a completion (a skip included).
C31_ActiveImpliesFlag ==
  env.storage =>
    /\ (state.isActive => localStorage[TOUR_ACTIVE_KEY] = "true")
    /\ ((pre.localStorage[TOUR_ACTIVE_KEY] = NULL /\ localStorage[TOUR_ACTIVE_KEY] # NULL)
          => (op \in StartOps \/ (AdvancedAtLast /\ navTo # NoPath)))
    /\ ((pre.localStorage[TOUR_ACTIVE_KEY] # NULL /\ localStorage[TOUR_ACTIVE_KEY] = NULL)
          => Completed)
    /\ ((AdvancedAtLast /\ navTo # NoPath) => localStorage[TOUR_ACTIVE_KEY] = "true")

\* The tour has been advanced to its third step with the flag stored.
C31_Witness ==
  /\ env.storage
  /\ op = "nextStep"
  /\ state.isActive
  /\ state.currentStep = 2
  /\ localStorage[TOUR_ACTIVE_KEY] = "true"

\* C32: the stored completion flag, once set, is set after every event
\* (start, restart, advance, retreat, skip, page load and init, timers); a
\* completion sets it; a start sets the runtime hasCompleted to false and
\* leaves the stored flag as it was.
C32_CompletionFlagMonotonic ==
  /\ (pre.localStorage[STORAGE_KEY] = "true" => localStorage[STORAGE_KEY] = "true")
  /\ ((Completed /\ env.storage) => localStorage[STORAGE_KEY] = "true")
  /\ (op \in StartOps =>
        /\ ~state.hasCompleted
        /\ localStorage[STORAGE_KEY] = pre.localStorage[STORAGE_KEY])

\* A restart on the page where the tour was completed: hasCompleted goes
\* back to false and the stored flag stays.
C32_Witness ==
  /\ op = "restartTour"
  /\ pre.state.hasCompleted
  /\ ~state.hasCompleted
  /\ pre.localStorage[STORAGE_KEY] = "true"
  /\ localStorage[STORAGE_KEY] = "true"

\* C33 as claimed: while the tour is active and the reveal started by the
\* most recent render has neither finished nor been skipped, isTyping is
\* true, also after an earlier reveal, superseded by a retreat or a
\* (re)start, has resolved.
C33_TypingWhileRevealInProgress ==
  (state.isActive /\ reveals.cur) => state.isTyping

\* C34 as claimed: the deferred start is scheduled by init only and fires at
\* most once per page load, and once the visitor is past step 0 the index
\* returns to 0 on that page only through an explicit start or restart or
\* through a retreat, never through the deferred start.
C34_DeferredStartNeverResets ==
  /\ ((pre.startTimer = "none" /\ startTimer # "none") => op = "settle")
  /\ (op = "autostart" => (pre.startTimer # "none" /\ startTimer = "none"))
  /\ (( /\ pre.state.currentStep > 0
        /\ state.currentStep = 0
        /\ op \notin {"visit", "navigate"} )
       => op \in {"startTour", "restartTour", "catClick", "prevStep"})

\* C35: while the tour is active the collaborators were last told the
\* current step: the mascot plays its animation, the bubble counts
\* (currentStep + 1, script length) with 1 <= counter <= total, the overlay
\* is in full-screen mode exactly when the step is a welcome step, a step
\* that is not a welcome step has its target highlighted, and what is
\* highlighted is never the target of a welcome step.
C35_CollaboratorsMatchStep ==
  state.isActive =>
    LET step == tourSteps[state.currentStep + 1]
    IN  /\ catGuide.animation = step.animation
        /\ speechBubble.current = state.currentStep + 1
        /\ speechBubble.total = Len(tourSteps)
        /\ 1 <= speechBubble.current /\ speechBubble.current <= speechBubble.total
        /\ tourSpotlight.welcomeMode = step.welcomeMode
        /\ (~step.welcomeMode => tourSpotlight.target = step.target)
        /\ \/ tourSpotlight.target = NoTarget
           \/ \E i \in 1..Len(tourSteps) :
                ~tourSteps[i].welcomeMode /\ tourSpotlight.target = tourSteps[i].target
        /\ speechBubble.message = step.message

\* A retreat from the third step of the home script to its second, which
\* is not a welcome step.
C35_Witness ==
  /\ op = "prevStep"
  /\ state.isActive
  /\ pre.state.currentStep = 2
  /\ state.currentStep = 1
  /\ ~tourSteps[2].welcomeMode
  /\ tourSpotlight.target = tourSteps[2].target
  /\ speechBubble.current = 2

\* C36: no event stores a value under the resume-step key (the key changes
\* only by being removed, in a completion), and every start - by hand, by
\* the deferred start, or resuming after a navigation - begins at step 0 of
\* the script of the current page, whatever is stored under the key.
C36_ResumeStepUnused ==
  /\ (localStorage[TOUR_STEP_KEY] # pre.localStorage[TOUR_STEP_KEY]
        => (localStorage[TOUR_STEP_KEY] = NULL /\ Completed))
  /\ (op \in StartOps =>
        /\ state.currentStep = 0
        /\ tourSteps = getTourStepsForPage(PageId))

\* The tour resumes on '/about' after a navigation, with "2" stored under
\* the resume-step key: it begins at step 0.
C36_Witness ==
  /\ op = "autostart"
  /\ pre.startTimer = "resume"
  /\ pathname = <<"/", "about">>
  /\ localStorage[TOUR_STEP_KEY] = "2"
  /\ state.currentStep = 0
  /\ state.isActive

\* The page after a click on the skip control, after skip through
\* window.portfolioTour, and after the Escape key.
SkipClicked == invoke(Machine, clickCall(Machine, "#tour-skip"))

SkipCommanded == invoke(Machine, apiCall("skip"))

EscapePressed == invoke(Machine, keyCall(Machine, "Escape"))

\* m is completed: not active, hasCompleted, and with working storage the
\* completion flag stored and the cross-page-active flag removed.
IsCompleted(m) ==
  /\ ~m.state.isActive
  /\ m.state.hasCompleted
  /\ (m.env.storage =>
        /\ m.localStorage[STORAGE_KEY] = "true"
        /\ m.localStorage[TOUR_ACTIVE_KEY] = NULL)

\* C37: in every reachable state, the tour active or not, the skip control
\* and the skip command complete the tour; the Escape key completes it when
\* the tour is active and changes nothing when it is not.
C37_SkipCompletesFromEveryState ==
  /\ IsCompleted(SkipClicked)
  /\ IsCompleted(SkipCommanded)
  /\ (state.isActive => IsCompleted(EscapePressed))
  /\ (~state.isActive => EscapePressed = Machine)
  /\ (op = "skipTour" => IsCompleted(Machine))

\* The skip control is clicked on a first visit before any tour has run:
\* the completion flag is stored.
C37_Witness ==
  /\ op = "skipTour"
  /\ ~pre.state.isActive
  /\ ~pre.state.hasCompleted
  /\ pre.localStorage[STORAGE_KEY] = NULL
  /\ localStorage[STORAGE_KEY] = "true"
  /\ state.hasCompleted

\* C38: after stopAmbientPurr() the handle is empty and no timer is
\* pending; the ambient timer fires only while the handle is set, so no
\* ambient purr comes before the next start of the chain; each firing leaves
\* exactly one successor pending, named by the handle; and a completion of
\* the tour (a skip included) leaves a running chain as it was.
C38_AmbientChain ==
  /\ (op = "stopAmbientPurr" => (sound.purrInterval = 0 /\ sound.timers = {}))
  /\ (sound.purrInterval = 0 => sound.timers = {})
  /\ (op = "purr" =>
        /\ pre.sound.purrInterval # 0
        /\ pre.sound.timers = {pre.sound.purrInterval}
        /\ sound.purrInterval # 0
        /\ sound.timers = {sound.purrInterval})
  /\ ((Completed /\ pre.sound.purrInterval # 0) =>
        /\ sound.purrInterval = pre.sound.purrInterval
        /\ sound.timers = pre.sound.timers)

\* The ambient timer fires after the tour was completed and schedules its
\* successor.
C38_Witness ==
  /\ op = "purr"
  /\ state.hasCompleted
  /\ ~state.isActive
  /\ "purr" \in sound.out
  /\ Cardinality(sound.timers) = 1

\* A volume in [0, 1], in tenths.
InUnitRange(volume) == volume # NaN /\ 0 <= volume /\ volume <= 10

\* C39 as claimed: the volume is within [0, 1] in every reachable state;
\* setVolume stores its argument clamped to that range; no other method
\* or timer changes the volume (a page load starts again from 0.5).
C39_VolumeInUnitRange ==
  /\ InUnitRange(sound.volume)
  /\ \A v \in {-3, 0, 8, 10, 12} :
       setVolume(Machine, v).sound.volume = (IF v < 0 THEN 0 ELSE IF v > 10 THEN 10 ELSE v)
  /\ (op \notin {"setVolume", "visit"} => sound.volume = pre.sound.volume)

\* C40: stripping the start-tour marker leaves the visible URL with its
\* pathname and no query at all, the marker and every other parameter, and
\* changes nothing else: the page is not reloaded, the tour state, the
\* storage and the widgets are what they were.  When init strips the marker
\* the URL it leaves has no query.
C40_StripLeavesPathnameOnly ==
  /\ clearTourParam(Machine) = [Machine EXCEPT !.search = {}]
  /\ clearTourParam(Machine).pathname = pathname
  /\ TOUR_PARAM \notin clearTourParam(Machine).search
  /\ "ref" \notin clearTourParam(Machine).search
  /\ ((op = "settle" /\ startTimer = "url") =>
        /\ TOUR_PARAM \in pre.search
        /\ search = {}
        /\ phase = "settled"
        /\ state = pre.state
        /\ localStorage = pre.localStorage)

\* init stripped the marker from a URL that carried another parameter too.
C40_Witness ==
  /\ op = "settle"
  /\ startTimer = "url"
  /\ pre.search = {TOUR_PARAM, "ref"}
  /\ search = {}
  /\ phase = "settled"

====
